---- MODULE Spec2Model ----
(***************************************************************************)
(* Model of the AI engine of the meeting-minutes service:                  *)
(*   src/main.py                      AIEngine (orchestrator, quality gate)*)
(*   src/models/topic_detection.py    TopicDetector                        *)
(*   src/models/summary_generation.py SummaryGenerator                     *)
(*   src/models/action_item_recognition.py ActionItemRecognizer            *)
(*   src/utils/nlp_utils.py, src/utils/text_preprocessing.py               *)
(*                                                                         *)
(* Scores, thresholds and targets are percentages (0.85 is 85).  A text is *)
(* a sequence of one-character strings.  Calls into the transformer, spaCy *)
(* and metrics libraries, and the helper functions whose bodies the source *)
(* omits, are external: each either returns a value of its contract or     *)
(* raises, chosen nondeterministically by the action that makes the call.  *)
(***************************************************************************)
EXTENDS Integers, Sequences, FiniteSets, TLC

(***************************************************************************)
(* Bounds of the model.                                                    *)
(***************************************************************************)
\* longest list of clusters the clustering helper returns
MaxTopics == 2

\* longest list of action items handed to the quality gate
MaxItems == 2

\* most background tasks scheduled and not yet run
MaxTasks == 2

\* capacity of the preprocessor's pattern cache; stands for maxsize=1000
CacheCapacity == 2

\* most calls made on one preprocessor
MaxCalls == 4

\* how far the clock advances, in steps of half a TTL
MaxTicks == 3

\* most iterations of the chunk_text loop that are followed
MaxIterations == 8

(***************************************************************************)
(* Values.                                                                 *)
(***************************************************************************)
\* marker of a key that is absent from a dict
NoValue == -1

NoName == "absent"

\* confidence and quality scores the models produce, in percent
Scores == {70, 90, 100}

\* relevance scores of the clusters the clustering helper returns
ClusterScores == {90, 100}

\* the configured model of the topic stage and a replacement for it
ModelNames == {"bert-base-uncased", "distilbert-base-uncased"}

\* texts of requests: empty, blank, and one with a word
TextInputs == {<< >>, <<" ">>, <<"A">>}

\* confidence_threshold arguments: none given, in range, out of range
ThresholdArgs == {NoValue, 95, 150}

(***************************************************************************)
(* Text functions.                                                         *)
(***************************************************************************)
IsSpace(c) == c = " "

IsAlnum(c) == c \in {"a", "A"}

LowerChar(c) == IF c = "A" THEN "a" ELSE c

\* str.lower()
Lower(s) == [i \in DOMAIN s |-> LowerChar(s[i])]

RECURSIVE SplitFrom(_, _, _)
\* str.split(): the maximal runs of non-space characters of s[i..]
SplitFrom(s, i, word) ==
    IF i > Len(s)
    THEN IF word = << >> THEN << >> ELSE <<word>>
    ELSE IF IsSpace(s[i])
         THEN (IF word = << >> THEN << >> ELSE <<word>>) \o SplitFrom(s, i + 1, << >>)
         ELSE SplitFrom(s, i + 1, Append(word, s[i]))

Split(s) == SplitFrom(s, 1, << >>)

RECURSIVE Join(_)
\* ' '.join(words)
Join(words) ==
    IF words = << >> THEN << >>
    ELSE IF Len(words) = 1 THEN words[1]
    ELSE words[1] \o <<" ">> \o Join(Tail(words))

\* ' '.join(text.split())
NormalizeWhitespace(s) == Join(Split(s))

\* ''.join(char for char in text if char.isalnum() or char.isspace())
RemoveSpecialChars(s) == SelectSeq(s, LAMBDA c : IsAlnum(c) \/ IsSpace(c))

\* re.sub(r'[^\w\s]', '', text)
RemovePunctuation(s) == SelectSeq(s, LAMBDA c : IsAlnum(c) \/ IsSpace(c))

\* nlp_utils.preprocess_text with the default options; the caller has
\* checked that the text is not empty
preprocess_text(text) ==
    NormalizeWhitespace(Lower(RemoveSpecialChars(NormalizeWhitespace(text))))

\* text_preprocessing.clean_transcription_text
clean_transcription_text(text) ==
    IF text = << >> THEN text
    ELSE SelectSeq(NormalizeWhitespace(text),
                   LAMBDA c : IsAlnum(c) \/ IsSpace(c) \/ c \in {".", ",", "!", "?", "-"})

\* text_preprocessing.normalize_text, options case_sensitive=False and
\* remove_punctuation=True (the defaults _process_chunk passes)
normalize_text(text) ==
    IF text = << >> THEN text
    ELSE NormalizeWhitespace(RemovePunctuation(Lower(text)))

\* TranscriptionPreprocessor._process_chunk; no filler word can be spelled
\* with the characters of TextInputs, so remove_filler_words only
\* normalises the whitespace
process_chunk(chunk) ==
    normalize_text(IF chunk = << >> THEN chunk ELSE NormalizeWhitespace(chunk))

(***************************************************************************)
(* Configuration (src/config.py).  A dict is a record; a key that may be   *)
(* missing holds NoValue / NoName or carries a "present" flag.              *)
(***************************************************************************)
\* AI_ENGINE_CONFIG["topic_detection"]
DefaultTopicConfig ==
    [model_name |-> "bert-base-uncased", confidence_threshold |-> 85, performance_target |-> 95]

\* AI_ENGINE_CONFIG["action_item_recognition"]
DefaultActionConfig ==
    [model_name |-> "roberta-base", confidence_threshold |-> 80, performance_target |-> 90]

\* AI_ENGINE_CONFIG["summary_generation"]
DefaultSummaryConfig ==
    [model_name |-> "facebook/bart-large-cnn", performance_target |-> 85]

\* The top-level configuration dict.  Its "topic_detection" entry is a
\* reference to the dict object held in the variable topicSection, which
\* every copy of the top-level dict shares (dict.copy() is shallow).
\* model_params and performance_target are the top-level keys that
\* SummaryGenerator.update_model requires of a new configuration.
DefaultConfig ==
    [action_item_recognition |-> DefaultActionConfig,
     summary_generation      |-> DefaultSummaryConfig,
     model_params            |-> FALSE,
     performance_target      |-> NoValue]

(***************************************************************************)
(* Scores.  np.mean of a list is kept as the exact fraction sum/n; the     *)
(* mean of the empty list is NaN (n = 0), for which every comparison is    *)
(* false.                                                                  *)
(***************************************************************************)
RECURSIVE SumSeq(_)
SumSeq(s) == IF s = << >> THEN 0 ELSE Head(s) + SumSeq(Tail(s))

\* np.mean(values)
Mean(values) == [sum |-> SumSeq(values), n |-> Len(values)]

\* a plain number as a score
Num(x) == [sum |-> x, n |-> 1]

\* score < bound
ScoreLt(score, bound) == score.n > 0 /\ score.sum < bound * score.n

\* score >= bound
ScoreGe(score, bound) == score.n > 0 /\ score.sum >= bound * score.n

(***************************************************************************)
(* cachetools.TTLCache(maxsize, ttl) as TranscriptionPreprocessor uses it. *)
(* The store is the sequence of entries [key, value, expires], least       *)
(* recently used first.  An entry is live while the clock is before its    *)
(* expiry time; expired entries stay in the store until the next write.    *)
(***************************************************************************)
\* TTLCache(maxsize=1000, ttl=3600): the time to live, in seconds
Ttl == 3600

\* the clock advances in steps of half a TTL
TickSeconds == Ttl \div 2

\* the value of a lookup that finds nothing
Absent == <<"absent">>

\* the positions of key in the store (at most one)
TTLIndex(store, key) == {i \in DOMAIN store : store[i].key = key}

\* variant: an entry is live however old it is
TTLLiveForever(entry, t) == TRUE

\* an entry is live while the timer is before its expiry time
TTLLive(entry, t) == t < entry.expires

\* key in cache
TTLContains(store, key, t) == \E i \in TTLIndex(store, key) : TTLLive(store[i], t)

\* cache.get(key): the value of a live entry, else absent
TTLGet(store, key, t) ==
    IF TTLContains(store, key, t)
    THEN store[CHOOSE i \in TTLIndex(store, key) : TRUE].value
    ELSE Absent

\* the store after cache[key] was read: the entry becomes the most recently used
TTLTouch(store, key) ==
    LET i == CHOOSE j \in TTLIndex(store, key) : TRUE
    IN  Append(SelectSeq(store, LAMBDA e : e.key # key), store[i])

\* cache.expire(): drop the entries that are no longer live
TTLExpire(store, t) == SelectSeq(store, LAMBDA e : TTLLive(e, t))

\* variant: a full cache drops its most recently used entry
TTLEvictNewest(store, maxsize) ==
    IF Len(store) >= maxsize THEN SubSeq(store, 1, Len(store) - 1) ELSE store

\* cache.popitem() while the cache is full: the least recently used entry goes
TTLEvict(store, maxsize) ==
    IF Len(store) >= maxsize THEN Tail(store) ELSE store

\* cache[key] = value
TTLSet(store, key, value, t, maxsize, ttl) ==
    LET live == TTLExpire(store, t)
        entry == [key |-> key, value |-> value, expires |-> t + ttl]
    IN  IF TTLIndex(live, key) # {}
        THEN Append(SelectSeq(live, LAMBDA e : e.key # key), entry)
        ELSE Append(TTLEvict(live, maxsize), entry)

(***************************************************************************)
(* TranscriptionPreprocessor (text_preprocessing.py).  A preprocessor is   *)
(* its pattern cache and its counters; history is a record of what it was  *)
(* asked, kept beside it: for every text whose result was stored and not   *)
(* cleared since, when it was stored, and which other texts went through   *)
(* the cache since it was last stored or served.                           *)
(***************************************************************************)
NoHistory == [k \in {} |-> 0]

\* TranscriptionPreprocessor.__init__
NewPreprocessor ==
    [cache |-> << >>, cache_hits |-> 0, texts_processed |-> 0, calls |-> 0,
     returned |-> 0, history |-> NoHistory]

\* hash(text): the cache key of a text; distinct texts of the model have
\* distinct hashes
CacheKeyOf(text) == text

\* the history after text went through the cache; stored says its result
\* was written now
Remember(history, text, stored, t) ==
    [k \in DOMAIN history \cup (IF stored THEN {text} ELSE {}) |->
        IF k = text
        THEN [at |-> IF stored THEN t ELSE history[k].at, others |-> {}]
        ELSE [history[k] EXCEPT !.others = @ \cup {text}]]

\* TranscriptionPreprocessor.process(text, use_cache) for a text below
\* max_chunk_size.  ext: "ok", or "raise" when a call made by the method
\* raises (time.time(), cleaning, segmentation, normalisation).  t is the
\* clock when the method tests "cache_key in self._pattern_cache", t_read
\* the clock when it then reads self._pattern_cache[cache_key]: an entry
\* that has expired by then makes the read raise KeyError, after the read
\* made it the most recently used entry.
Process(p, text, use_cache, ext, t, t_read) ==
    LET key == CacheKeyOf(text)
        called == [p EXCEPT !.calls = @ + 1]
    IN  IF text = << >> THEN [pre |-> called, status |-> "ValueError"]
        ELSE IF ext = "raise" THEN [pre |-> called, status |-> "error"]
        ELSE IF use_cache /\ TTLContains(p.cache, key, t)
        THEN IF TTLContains(p.cache, key, t_read)
             THEN [pre |-> [called EXCEPT !.cache_hits = @ + 1,
                                          !.returned = @ + 1,
                                          !.cache = TTLTouch(p.cache, key),
                                          !.history = Remember(p.history, text, FALSE, t)],
                   status |-> "ok", hit |-> TRUE, value |-> TTLGet(p.cache, key, t_read),
                   expired |-> FALSE]
             ELSE [pre |-> [called EXCEPT !.cache_hits = @ + 1,
                                          !.cache = TTLTouch(p.cache, key)],
                   status |-> "KeyError"]
        ELSE LET processed_text == process_chunk(clean_transcription_text(text))
                 cached == IF use_cache
                           THEN [called EXCEPT
                                    !.cache = TTLSet(p.cache, key, processed_text, t,
                                                     CacheCapacity, Ttl),
                                    !.history = Remember(p.history, text, TRUE, t)]
                           ELSE called
             IN  [pre |-> [cached EXCEPT !.texts_processed = @ + 1, !.returned = @ + 1],
                  status |-> "ok", hit |-> FALSE, value |-> processed_text,
                  \* the lookup came upon an entry that had outlived its TTL
                  expired |-> use_cache /\ TTLIndex(p.cache, key) # {}]

\* TranscriptionPreprocessor.update_config(new_config); has_preprocessing
\* says new_config has the key 'preprocessing'
UpdateConfig(p, has_preprocessing) ==
    IF has_preprocessing
    THEN [pre |-> [p EXCEPT !.cache = << >>, !.history = NoHistory, !.calls = @ + 1],
          returns |-> TRUE]
    ELSE [pre |-> [p EXCEPT !.calls = @ + 1], returns |-> FALSE]

\* the texts a preprocessor is given
PatternTexts == {<< >>, <<"A">>, <<"a", " ", "a">>, <<"A", " ">>}

(***************************************************************************)
(* summary_generation.chunk_text(text, chunk_size, speaker_context,        *)
(* preserve_overlap) on a machine without a GPU and with no speaker        *)
(* context.  Indices are Python's: they count from 0, an index below 0     *)
(* counts from the end, and a slice clamps its bounds.                     *)
(***************************************************************************)
\* the overlap of a chunk with the next one, in characters
OverlapWidth == 100

Min(a, b) == IF a < b THEN a ELSE b

Max(a, b) == IF a > b THEN a ELSE b

\* text[i] is defined
IndexInRange(text, i) == -Len(text) <= i /\ i < Len(text)

\* text[i]
CharAt(text, i) == IF i >= 0 THEN text[i + 1] ELSE text[Len(text) + i + 1]

\* the bound of a slice as Python clamps it
SliceBound(text, i) == IF i < 0 THEN Max(Len(text) + i, 0) ELSE Min(i, Len(text))

\* text[a:b]
Slice(text, a, b) == SubSeq(text, SliceBound(text, a) + 1, SliceBound(text, b))

IsSentenceEnd(c) == c \in {".", "!", "?"}

\* the condition on which the scan below stops at index i
ScanStopsAt(text, i) ==
    IF ~(i < Len(text)) THEN TRUE
    ELSE IF ~IndexInRange(text, i) THEN TRUE
    ELSE IsSentenceEnd(CharAt(text, i))

\* while end_idx < len(text) and text[end_idx] not in '.!?': end_idx += 1
\* the index the loop stops at, or IndexError when it reads outside the text
ScanToSentenceEnd(text, end_idx) ==
    LET stops == {i \in end_idx..Max(end_idx, Len(text)) : ScanStopsAt(text, i)}
        stop == CHOOSE i \in stops : \A j \in stops : i <= j
    IN  [raised |-> stop < Len(text) /\ ~IndexInRange(text, stop), end_idx |-> stop]

\* the end of the chunk that starts at start_idx
ChunkEnd(text, chunk_size, preserve_overlap, start_idx) ==
    LET end_idx == start_idx + chunk_size
    IN  IF preserve_overlap /\ end_idx < Len(text)
        THEN LET scan == ScanToSentenceEnd(text, end_idx)
             IN  [raised |-> scan.raised, end_idx |-> Min(scan.end_idx + 1, Len(text))]
        ELSE [raised |-> FALSE, end_idx |-> end_idx]

\* variant: without overlap the next chunk starts one character late
NextStartSkipping(end_idx, preserve_overlap) ==
    IF preserve_overlap THEN end_idx - OverlapWidth ELSE end_idx + 1

\* start_idx = end_idx - (100 if preserve_overlap else 0)
NextStart(end_idx, preserve_overlap) ==
    end_idx - (IF preserve_overlap THEN OverlapWidth ELSE 0)

\* one iteration of "while start_idx < len(text)"
ChunkIteration(c) ==
    LET e == ChunkEnd(c.text, c.chunk_size, c.preserve_overlap, c.start_idx)
        chunk == [text |-> Slice(c.text, c.start_idx, e.end_idx),
                  start_idx |-> c.start_idx,
                  end_idx |-> e.end_idx,
                  overlap_next |-> c.preserve_overlap /\ e.end_idx < Len(c.text)]
    IN  IF e.raised
        THEN [c EXCEPT !.pc = "raised", !.iterations = @ + 1]
        ELSE [c EXCEPT !.chunks = Append(@, chunk),
                       !.start_idx = NextStart(e.end_idx, c.preserve_overlap),
                       !.iterations = @ + 1]

\* no chunk_text call is running
NoChunking ==
    [text |-> << >>, chunk_size |-> 1, requested |-> 1, preserve_overlap |-> FALSE,
     start_idx |-> 0, chunks |-> << >>, iterations |-> 0, pc |-> "idle"]

\* chunk_size = min(chunk_size, int(free_memory / 1024 / 1024 / 4)) when a GPU
\* is available; budget is that quotient, NoValue on a machine without a GPU
EffectiveChunkSize(chunk_size, budget) ==
    IF budget = NoValue THEN chunk_size ELSE Min(chunk_size, budget)

\* chunks = [], start_idx = 0; requested is the chunk_size argument
StartChunking(text, chunk_size, preserve_overlap, budget) ==
    [text |-> text, chunk_size |-> EffectiveChunkSize(chunk_size, budget),
     requested |-> chunk_size, preserve_overlap |-> preserve_overlap,
     start_idx |-> 0, chunks |-> << >>, iterations |-> 0, pc |-> "loop"]

\* a text of n characters with sentence ends at the positions dots
TextOf(n, dots) == [i \in 1..n |-> IF i \in dots THEN "." ELSE "a"]

\* the calls of chunk_text: empty and short texts with small chunk sizes
\* and chunk sizes around the overlap width, a text of several chunks, and
\* calls on a machine whose GPU has memory left for chunks of two characters
ChunkCalls ==
    {StartChunking(text, chunk_size, preserve_overlap, NoValue) :
        text \in {TextOf(0, {}), TextOf(3, {}), TextOf(3, {2})},
        chunk_size \in {1, 2, 3, 4, 99, 100, 101, 102},
        preserve_overlap \in BOOLEAN}
    \cup
    {StartChunking(TextOf(260, {201, 202}), chunk_size, preserve_overlap, NoValue) :
        chunk_size \in {50, 100, 150, 300},
        preserve_overlap \in BOOLEAN}
    \cup
    {StartChunking(TextOf(3, {}), chunk_size, FALSE, 2) : chunk_size \in {1, 3}}

(***************************************************************************)
(* The parallel branch of TranscriptionPreprocessor.process:               *)
(*   chunks = [text[i:i + chunk_size] for i in range(0, len(text), ...)]   *)
(*   processed_chunks = self._process_pool.map(self._process_chunk, chunks)*)
(*   processed_text = ''.join(processed_chunks)                            *)
(* The workers of the pool finish their chunks in any order; order is the  *)
(* order in which they did.                                                *)
(***************************************************************************)
\* the chunks of a text, in offset order
SplitChunks(text, chunk_size) ==
    [k \in 1..((Len(text) + chunk_size - 1) \div chunk_size) |->
        Slice(text, (k - 1) * chunk_size, k * chunk_size)]

RECURSIVE JoinChunks(_)
\* ''.join(processed_chunks)
JoinChunks(processed_chunks) ==
    IF processed_chunks = << >> THEN << >>
    ELSE Head(processed_chunks) \o JoinChunks(Tail(processed_chunks))

\* variant (imap_unordered): the results in the order the workers finished
MapResultsAsFinished(p) == [k \in DOMAIN p.order |-> p.results[p.order[k]]]

\* the list Pool.map returns: the result of chunk i at position i
MapResults(p) == [k \in DOMAIN p.chunks |-> p.results[k]]

\* no parallel call is running
NoPool ==
    [pc |-> "idle", text |-> << >>, chunks |-> << >>, results |-> << >>, order |-> << >>,
     processed_text |-> << >>]

\* the map call of process(text) under preprocessing.max_chunk_size = chunk_size
StartPool(text, chunk_size) ==
    [pc |-> "map", text |-> text, chunks |-> SplitChunks(text, chunk_size),
     results |-> [k \in DOMAIN SplitChunks(text, chunk_size) |-> Absent],
     order |-> << >>, processed_text |-> << >>]

\* texts longer than the chunk size they are processed under
PoolTexts ==
    {<<"a", " ", "a", "A", "a", "a">>,
     <<"A", "a", "a", " ", ".", "a", "a", " ", "A">>,
     <<"a", "a", "a", "a", "a", " ", "a">>}

\* configured values of preprocessing.max_chunk_size
PoolChunkSizes == {2, 3}

PoolCalls ==
    {StartPool(text, chunk_size) : text \in PoolTexts, chunk_size \in PoolChunkSizes}

(***************************************************************************)
(* State.                                                                  *)
(***************************************************************************)
VARIABLES
    engineConfig,   \* the dict AIEngine._config refers to (shared with the stages)
    topicSection,   \* the dict engineConfig["topic_detection"] refers to
    td,             \* TopicDetector: _config, _model, _tokenizer, _cache, _preprocessor
    sg,             \* SummaryGenerator: _config, _model, _tokenizer, _cache, _preprocessor
    tasks,          \* number of background tasks scheduled and not yet run
    now,            \* the clock (time.time(), datetime.now()), in seconds
    pre,            \* a TranscriptionPreprocessor: _pattern_cache, _performance_metrics
    chunking,       \* the frame of a chunk_text call: arguments, start_idx, chunks
    pool,           \* a Pool.map call of the preprocessor: chunks, results so far
    request,        \* the frame of a detect_topics call that runs beside an update
    update,         \* the frame of a TopicDetector.update_model call in progress
    op,             \* the operation that ran last
    ret             \* how it ended: value returned or error raised

vars == <<engineConfig, topicSection, td, sg, tasks, now, pre, chunking, pool, request, update,
          op, ret>>

\* TopicDetector._config: the shared section until a rollback rebinds it to
\* the detector's own copy
TdConfigOf(t, section) == IF t.shared THEN section ELSE t.own

TdConfig == TdConfigOf(td, topicSection)

\* SummaryGenerator._config: the shared dict until a revert rebinds it to
\* the generator's own copy
SgConfigOf(g, config) == IF g.shared THEN config ELSE g.own

SgConfig == SgConfigOf(sg, engineConfig)

\* what a caller can observe of a stage: configuration contents, model, tokenizer
TdView(t, section) ==
    [config |-> TdConfigOf(t, section), model |-> t.model, tokenizer |-> t.tokenizer]

SgView(g, config) ==
    [config |-> SgConfigOf(g, config), model |-> g.model, tokenizer |-> g.tokenizer]

EmptyCache == [k \in {} |-> 0]

\* dict[key] = value
Put(cache, key, value) == [k \in DOMAIN cache \cup {key} |-> IF k = key THEN value ELSE cache[k]]

\* no detect_topics call is in progress
NoRequest == [pc |-> "idle"]

\* no update_model call is in progress
NoUpdate == [pc |-> "idle"]

\* AIEngine.__init__, TopicDetector.__init__, SummaryGenerator.__init__
Init ==
    /\ engineConfig = DefaultConfig
    /\ topicSection = DefaultTopicConfig
    /\ td = [shared |-> TRUE, own |-> DefaultTopicConfig,
             model |-> DefaultTopicConfig.model_name,
             tokenizer |-> DefaultTopicConfig.model_name,
             cache |-> EmptyCache, patterns |-> EmptyCache]
    /\ sg = [shared |-> TRUE, own |-> DefaultConfig,
             model |-> DefaultSummaryConfig.model_name,
             tokenizer |-> DefaultSummaryConfig.model_name,
             cache |-> EmptyCache, patterns |-> EmptyCache]
    /\ tasks = 0
    /\ now = 0
    /\ pre = NewPreprocessor
    /\ chunking = NoChunking
    /\ pool = NoPool
    /\ request = NoRequest
    /\ update = NoUpdate
    /\ op = "init"
    /\ ret = [status |-> "ok"]

(***************************************************************************)
(* TranscriptionPreprocessor.process (use_cache and the short-text branch).*)
(* patterns is the preprocessor's _pattern_cache.  Returns the new cache   *)
(* and the outcome.                                                        *)
(***************************************************************************)
PreprocessorProcess(patterns, text, raises) ==
    IF text = << >> THEN [patterns |-> patterns, status |-> "ValueError"]
    ELSE IF raises THEN [patterns |-> patterns, status |-> "error"]
    ELSE IF text \in DOMAIN patterns
         THEN [patterns |-> patterns, status |-> "ok", processed_text |-> patterns[text]]
         ELSE LET processed_text == process_chunk(clean_transcription_text(text))
              IN [patterns |-> Put(patterns, text, processed_text),
                  status |-> "ok", processed_text |-> processed_text]

(***************************************************************************)
(* nlp_utils.extract_topics: the clusters the clustering helper returned,  *)
(* kept when their score reaches min_relevance_score.                      *)
(***************************************************************************)
ExtractTopicsKeep(score, min_relevance_score) == score >= min_relevance_score

extract_topics(clusters, min_relevance_score) ==
    SelectSeq(clusters, LAMBDA score : ExtractTopicsKeep(score, min_relevance_score))

RECURSIVE ExtractSubtopicsOfFirst(_, _, _, _)
\* variant: the subtopics of the first cluster go with every topic
ExtractSubtopicsOfFirst(clusters, subtopics, min_relevance_score, i) ==
    IF i > Len(clusters) THEN << >>
    ELSE (IF ExtractTopicsKeep(clusters[i], min_relevance_score)
          THEN <<subtopics[1]>> ELSE << >>)
         \o ExtractSubtopicsOfFirst(clusters, subtopics, min_relevance_score, i + 1)

RECURSIVE ExtractSubtopics(_, _, _, _)
\* 'subtopics': topic.get('subtopics', []) of the topics that are kept, from
\* the i-th cluster on: each topic carries the subtopics of its own cluster
ExtractSubtopics(clusters, subtopics, min_relevance_score, i) ==
    IF i > Len(clusters) THEN << >>
    ELSE (IF ExtractTopicsKeep(clusters[i], min_relevance_score)
          THEN <<subtopics[i]>> ELSE << >>)
         \o ExtractSubtopics(clusters, subtopics, min_relevance_score, i + 1)

\* the guard of extract_topics that raises ValueError
ExtractTopicsRejects(text, min_relevance_score) ==
    text = << >> \/ min_relevance_score < 0 \/ min_relevance_score > 100

(***************************************************************************)
(* TopicDetector.detect_topics(text, confidence_threshold).                *)
(*   clusters: what the clustering helper returns if it is reached: the    *)
(*   scores of its clusters, and subtopics: for each cluster, the          *)
(*   relevances of its subtopics                                           *)
(*   ext: "ok", or the external call that raises ("preprocess", "nlp")     *)
(* Returns the detector after the call and the outcome.                    *)
(***************************************************************************)
\* variant: every result is written to the cache
CacheEligibleAlways(result, config) == TRUE

\* the condition under which detect_topics writes its result to the cache
CacheEligible(result, config) == ScoreGe(result.performance_score, config.performance_target)

\* the lookup key of the detector's cache
CacheKey(text, threshold) == text

DetectTopics(t, section, text, confidence_threshold, clusters, subtopics, ext) ==
    LET config == TdConfigOf(t, section)
        threshold == IF confidence_threshold \in {NoValue, 0}
                     THEN config.confidence_threshold ELSE confidence_threshold
        key == CacheKey(text, threshold)
    IN  IF text = << >> THEN [td |-> t, status |-> "ValueError"]
        ELSE IF key \in DOMAIN t.cache
        THEN [td |-> t, status |-> "ok", result |-> t.cache[key], cached |-> TRUE]
        ELSE LET pp == PreprocessorProcess(t.patterns, text, ext = "preprocess")
                 t1 == [t EXCEPT !.patterns = pp.patterns]
             IN  IF pp.status # "ok" THEN [td |-> t1, status |-> pp.status]
                 ELSE IF ExtractTopicsRejects(pp.processed_text, threshold)
                 THEN [td |-> t1, status |-> "ValueError"]
                 ELSE IF ext = "nlp" THEN [td |-> t1, status |-> "error"]
                 ELSE LET topics == extract_topics(clusters, threshold)
                          result == [topics |-> topics,
                                     subtopics |-> ExtractSubtopics(clusters, subtopics,
                                                                    threshold, 1),
                                     confidence_threshold |-> threshold,
                                     model_name |-> config.model_name,
                                     performance_score |-> Mean(topics),
                                     stale |-> FALSE]
                          t2 == IF CacheEligible(result, config)
                                THEN [t1 EXCEPT !.cache = Put(t1.cache, key, result)]
                                ELSE t1
                      IN  [td |-> t2, status |-> "ok", result |-> result, cached |-> FALSE]

\* the lists the clustering helper can return
ClusterLists == UNION {[1..n -> ClusterScores] : n \in 0..MaxTopics}

\* the subtopics the clustering helper gives a cluster: none, or one that
\* is as relevant as the cluster
SubtopicsOf(score) == {<< >>, <<score>>}

\* the subtopics the clustering helper can return with a list of clusters
SubtopicLists(clusters) ==
    {subtopics \in [DOMAIN clusters -> UNION {SubtopicsOf(score) : score \in ClusterScores}] :
        \A i \in DOMAIN clusters : subtopics[i] \in SubtopicsOf(clusters[i])}

\* a caller invokes detect_topics on the detector
DetectTopicsCall ==
    \E text \in TextInputs :
    \E t \in IF text = << >> THEN {NoValue} ELSE ThresholdArgs :
    \E ext \in IF text = << >> THEN {"ok"} ELSE {"ok", "preprocess", "nlp"} :
    \E clusters \in IF text = << >> \/ ext # "ok" \/ t > 100 THEN {<< >>} ELSE ClusterLists :
    \E subtopics \in SubtopicLists(clusters) :
        \E r \in {DetectTopics(td, topicSection, text, t, clusters, subtopics, ext)} :
            /\ td' = r.td
            /\ op' = "detect_topics"
            /\ ret' = IF r.status = "ok"
                      THEN [status |-> "ok", text |-> text, confidence_threshold |-> t,
                            topics |-> r.result.topics,
                            subtopics |-> r.result.subtopics,
                            performance_score |-> r.result.performance_score,
                            cached |-> r.cached]
                      ELSE [status |-> r.status, text |-> text, confidence_threshold |-> t]
            /\ UNCHANGED <<engineConfig, topicSection, sg, tasks, now, pre, chunking, pool, request, update>>

(***************************************************************************)
(* TopicDetector.update_model(new_config, force_update).                   *)
(*   fail: "none", or the step that raises: "model" and "tokenizer"        *)
(*   (from_pretrained), "device" (model.to / model.eval)                   *)
(***************************************************************************)
\* the keys update_model requires of new_config
TopicConfigValid(new_config) ==
    new_config.model_name # NoName /\ new_config.confidence_threshold # NoValue

\* self._config.update(new_config)
TopicConfigUpdate(config, new_config) ==
    [model_name |-> new_config.model_name,
     confidence_threshold |-> new_config.confidence_threshold,
     performance_target |-> IF new_config.performance_target = NoValue
                            THEN config.performance_target
                            ELSE new_config.performance_target]

\* variant: the except branch leaves the newly loaded model in place
TopicRollbackKeepsModel(t, old_config, old_model, old_tokenizer) ==
    [t EXCEPT !.shared = FALSE, !.own = old_config, !.tokenizer = old_tokenizer]

\* the except branch: rebind _config, _model and _tokenizer to the backups
TopicRollback(t, old_config, old_model, old_tokenizer) ==
    [t EXCEPT !.shared = FALSE, !.own = old_config,
              !.model = old_model, !.tokenizer = old_tokenizer]

\* variant: the cache survives the update
ClearCacheKeeps(cache) == cache

\* self._cache.clear()
ClearCache(cache) == EmptyCache

\* the entries of a cache, marked as computed before a model update
MarkStale(cache) == [k \in DOMAIN cache |-> [cache[k] EXCEPT !.stale = TRUE]]

TopicUpdateModel(t, section, new_config, force_update, fail) ==
    LET config == TdConfigOf(t, section)
    IN  IF ~TopicConfigValid(new_config)
        THEN [td |-> t, section |-> section, returns |-> FALSE, path |-> "invalid"]
        ELSE IF ~force_update /\ new_config.model_name = config.model_name
        THEN [td |-> t, section |-> section, returns |-> TRUE, path |-> "up_to_date"]
        ELSE LET old_config == config
                 old_model == t.model
                 old_tokenizer == t.tokenizer
                 t1 == [t EXCEPT !.model = new_config.model_name]
                 t2 == [t1 EXCEPT !.tokenizer = new_config.model_name]
                 merged == TopicConfigUpdate(config, new_config)
                 \* the update is in place: it changes the dict _config refers to
                 t3 == IF t.shared THEN t2 ELSE [t2 EXCEPT !.own = merged]
                 section3 == IF t.shared THEN merged ELSE section
             IN  IF fail = "model"
                 THEN [td |-> TopicRollback(t, old_config, old_model, old_tokenizer),
                       section |-> section, returns |-> FALSE, path |-> "rollback"]
                 ELSE IF fail = "tokenizer"
                 THEN [td |-> TopicRollback(t1, old_config, old_model, old_tokenizer),
                       section |-> section, returns |-> FALSE, path |-> "rollback"]
                 ELSE IF fail = "device"
                 THEN [td |-> TopicRollback(t3, old_config, old_model, old_tokenizer),
                       section |-> section3, returns |-> FALSE, path |-> "rollback"]
                 ELSE [td |-> [t3 EXCEPT !.cache = ClearCache(MarkStale(t3.cache))],
                       section |-> section3, returns |-> TRUE, path |-> "commit"]

\* the configurations a caller passes to TopicDetector.update_model
TopicNewConfigs ==
    [model_name : ModelNames \cup {NoName},
     confidence_threshold : {NoValue, 85},
     performance_target : {NoValue, 90}]

TopicUpdateCall ==
    \E new_config \in TopicNewConfigs :
    \E force_update \in IF TopicConfigValid(new_config) THEN BOOLEAN ELSE {FALSE} :
    \E fail \in IF TopicConfigValid(new_config)
                THEN {"none", "model", "tokenizer", "device"} ELSE {"none"} :
        \E r \in {TopicUpdateModel(td, topicSection, new_config, force_update, fail)} :
            /\ td' = r.td
            /\ topicSection' = r.section
            /\ op' = "topic_update_model"
            /\ ret' = [status |-> "ok", returns |-> r.returns, path |-> r.path,
                       lacks_target |-> new_config.performance_target = NoValue,
                       had_entries |-> td.cache # EmptyCache]
            /\ UNCHANGED <<engineConfig, sg, tasks, now, pre, chunking, pool, request, update>>

(***************************************************************************)
(* SummaryGenerator.update_model(new_config, validate_performance).        *)
(*   outcome: what _validate_performance does: NoValue when it raises,     *)
(*   else the degradation it measures, in percent                          *)
(***************************************************************************)
\* variant: only model_params is required
SummaryConfigValidParamsOnly(new_config) == new_config.model_params

\* the keys update_model requires of new_config
SummaryConfigValid(new_config) ==
    new_config.model_params /\ new_config.performance_target # NoValue

\* self._config.update(new_config)
SummaryConfigUpdate(config, new_config) ==
    [action_item_recognition |-> config.action_item_recognition,
     summary_generation |-> IF new_config.summary_generation.present
                            THEN new_config.summary_generation.value
                            ELSE config.summary_generation,
     model_params |-> TRUE,
     performance_target |-> new_config.performance_target]

\* variant: a degradation of exactly 10% counts as significant
DegradedFromTen(degradation) == degradation >= 10

\* performance_impact['degradation'] > 0.1
Degraded(degradation) == degradation > 10

\* self._config = old_config
SummaryRevert(g, old_config) == [g EXCEPT !.shared = FALSE, !.own = old_config]

\* the outcomes of _validate_performance
ValidationOutcomes == {NoValue, 10, 11}

SummaryUpdateModel(g, config, new_config, validate_performance, outcome) ==
    IF ~SummaryConfigValid(new_config)
    THEN [sg |-> g, config |-> config, status |-> "ValueError"]
    ELSE LET old_config == SgConfigOf(g, config)
             merged == SummaryConfigUpdate(old_config, new_config)
             \* the update is in place: it changes the dict _config refers to
             g1 == IF g.shared THEN g ELSE [g EXCEPT !.own = merged]
             config1 == IF g.shared THEN merged ELSE config
         IN  IF validate_performance /\ outcome = NoValue
             THEN [sg |-> g1, config |-> config1, status |-> "error"]
             ELSE IF validate_performance /\ Degraded(outcome)
             THEN [sg |-> SummaryRevert(g1, old_config), config |-> config1,
                   status |-> "reverted"]
             ELSE [sg |-> [g1 EXCEPT !.cache = ClearCache(g1.cache)], config |-> config1,
                   status |-> "updated"]

\* a replacement for the "summary_generation" section
NewSummaryConfig == [model_name |-> "facebook/bart-large", performance_target |-> 95]

\* the configurations a caller passes to SummaryGenerator.update_model
SummaryNewConfigs ==
    [model_params : BOOLEAN,
     performance_target : {NoValue, 90},
     summary_generation : {[present |-> FALSE, value |-> DefaultSummaryConfig],
                           [present |-> TRUE, value |-> NewSummaryConfig]}]

SummaryUpdateCall ==
    \E new_config \in SummaryNewConfigs :
    \E validate_performance \in IF SummaryConfigValid(new_config) THEN BOOLEAN ELSE {TRUE} :
    \E outcome \in IF SummaryConfigValid(new_config) /\ validate_performance
                   THEN ValidationOutcomes ELSE {NoValue} :
        \E r \in {SummaryUpdateModel(sg, engineConfig, new_config, validate_performance, outcome)} :
            /\ sg' = r.sg
            /\ engineConfig' = r.config
            /\ op' = "summary_update_model"
            /\ ret' = [status |-> r.status,
                       lacks_target |-> new_config.performance_target = NoValue,
                       new_config |-> new_config,
                       validate_performance |-> validate_performance,
                       outcome |-> outcome]
            /\ UNCHANGED <<topicSection, td, tasks, now, pre, chunking, pool, request, update>>

(***************************************************************************)
(* ActionItemRecognizer.detect_action_items(text, processing_config) for a *)
(* single text: at most one item.  The preprocessor it uses is created by  *)
(* the call and dropped with it.                                           *)
(*   score: the classifier's score of the text                             *)
(*   metadata_complete: assignee, deadline and priority were all extracted *)
(*   and the deadline is a valid, future timestamp                         *)
(***************************************************************************)
\* validate_action_item as detect_action_items calls it: the item it passes
\* has the keys 'text' and 'metadata' only, so item.get('confidence', 0) is 0
ValidateDetectedItem(threshold, default_threshold, metadata_complete, words) ==
    LET conf_threshold == IF threshold = 0 THEN default_threshold ELSE threshold
        confidence_check == ~(0 < conf_threshold)
        format_check == ~(words < 3)
    IN  confidence_check /\ metadata_complete /\ format_check

detect_action_items(config, text, override, score, metadata_complete) ==
    IF text = << >> THEN << >>
    ELSE LET threshold == IF override = NoValue
                          THEN config.action_item_recognition.confidence_threshold
                          ELSE override
             words == Len(Split(process_chunk(clean_transcription_text(text))))
         IN  IF score >= threshold
                /\ ValidateDetectedItem(threshold,
                                        config.action_item_recognition.confidence_threshold,
                                        metadata_complete, words)
             THEN <<score>>
             ELSE << >>

(***************************************************************************)
(* ActionItemRecognizer.validate_action_item(action_item, threshold).      *)
(* An item is [confidence, assignee, priority, deadline, text]:            *)
(*   confidence: the value of the key, NoValue when the item has none      *)
(*   assignee, priority: the metadata field is present (and not empty)     *)
(*   deadline: [kind, at]: "absent"; "malformed" (not ISO); "naive", an    *)
(*   ISO timestamp without UTC offset, at second `at` of the clock;        *)
(*   "aware", one with a UTC offset                                        *)
(* The feedback is the list of messages, in the order they are appended.   *)
(***************************************************************************)
\* threshold or self._config['action_item_recognition']['confidence_threshold']
EffectiveThreshold(config, threshold) ==
    IF threshold \in {NoValue, 0}
    THEN config.action_item_recognition.confidence_threshold
    ELSE threshold

\* action_item.get('confidence', 0)
ConfidenceOf(item) == IF item.confidence = NoValue THEN 0 ELSE item.confidence

\* [f for f in ['assignee', 'deadline', 'priority'] if not metadata.get(f)]
MissingFields(item) ==
    (IF item.assignee THEN << >> ELSE <<"assignee">>)
    \o (IF item.deadline.kind # "absent" THEN << >> ELSE <<"deadline">>)
    \o (IF item.priority THEN << >> ELSE <<"priority">>)

\* variant: a deadline counts as past when it is less than half an hour away
DeadlinePassedSoon(deadline, t) == deadline.at < t + TickSeconds

\* deadline < datetime.now()
DeadlinePassed(deadline, t) == deadline.at < t

\* variant: two words are enough
TooShortBelowTwo(text) == Len(Split(text)) < 2

\* len(text.split()) < 3
TooShort(text) == Len(Split(text)) < 3

\* variant: a deadline that is not an ISO timestamp fails the check silently
DeadlineFormatFeedbackSilent(malformed) == << >>

\* except ValueError: feedback.append('Invalid deadline format')
DeadlineFormatFeedback(malformed) ==
    IF malformed THEN <<<<"Invalid deadline format">>>> ELSE << >>

\* the call at clock time t.  Comparing a timestamp that has a UTC offset
\* with datetime.now(), which has none, raises TypeError, and the method
\* re-raises it.
ValidateActionItem(config, item, threshold, t) ==
    LET conf_threshold == EffectiveThreshold(config, threshold)
        low == ConfidenceOf(item) < conf_threshold
        missing == MissingFields(item)
        malformed == item.deadline.kind = "malformed"
        past == item.deadline.kind = "naive" /\ DeadlinePassed(item.deadline, t)
        short == TooShort(item.text)
        confidence_check == ~low
        metadata_check == missing = << >> /\ ~malformed /\ ~past
        format_check == ~short
        feedback ==
            (IF low THEN <<<<"Confidence score below threshold">>>> ELSE << >>)
            \o (IF missing # << >> THEN <<<<"Missing required metadata", missing>>>> ELSE << >>)
            \o (IF past THEN <<<<"Invalid deadline: Date is in the past">>>> ELSE << >>)
            \o DeadlineFormatFeedback(malformed)
            \o (IF short THEN <<<<"Action item text too short">>>> ELSE << >>)
    IN  IF item.deadline.kind = "aware"
        THEN [status |-> "TypeError"]
        ELSE [status |-> "ok",
              result |-> [confidence_check |-> confidence_check,
                          format_check |-> format_check,
                          metadata_check |-> metadata_check,
                          feedback |-> feedback,
                          is_valid |-> confidence_check /\ metadata_check /\ format_check]]

\* the deadlines an item can carry
Deadlines ==
    {[kind |-> "absent", at |-> 0], [kind |-> "malformed", at |-> 0],
     [kind |-> "naive", at |-> TickSeconds], [kind |-> "aware", at |-> TickSeconds]}

\* texts of one word and of three words
ItemTexts == {<<"a">>, <<"a", " ", "a", " ", "A">>}

\* the items validate_action_item is given
ActionItems ==
    [confidence : {NoValue, 70, 90}, assignee : BOOLEAN, priority : BOOLEAN,
     deadline : Deadlines, text : ItemTexts]

\* the threshold argument: None, 0.0, and two proper thresholds
ItemThresholds == {NoValue, 0, 50, 80}

(***************************************************************************)
(* SummaryGenerator.generate_summary(text): the generator's preprocessor   *)
(* runs first; chunking, generation and post-processing then produce a     *)
(* quality score or raise.                                                 *)
(*   ext: "ok", "preprocess" or "summary" (the step that raises)           *)
(***************************************************************************)
GenerateSummary(g, text, quality, ext) ==
    LET pp == PreprocessorProcess(g.patterns, text, ext = "preprocess")
        g1 == [g EXCEPT !.patterns = pp.patterns]
    IN  IF pp.status # "ok" THEN [sg |-> g1, status |-> pp.status]
        ELSE IF ext = "summary" THEN [sg |-> g1, status |-> "error"]
        ELSE [sg |-> g1, status |-> "ok", quality_score |-> quality]

(***************************************************************************)
(* AIEngine._validate_output_quality(topics, action_items, summary).       *)
(*   targets: the three values it reads from self._config                  *)
(*   topic_quality: topics['metadata']['performance_score']                *)
(*   confidences: the 'confidence' of each action item                     *)
(*   summary_quality: summary['metadata']['quality_score']                 *)
(***************************************************************************)
EngineTargets(config, section) ==
    [topic |-> section.performance_target,
     action |-> config.action_item_recognition.confidence_threshold,
     summary |-> config.summary_generation.performance_target]

\* variant: one confident action item is enough
ValidateOutputQualityAnyItem(targets, topic_quality, confidences, summary_quality) ==
    IF ScoreLt(topic_quality, targets.topic) THEN FALSE
    ELSE IF ~(\E i \in DOMAIN confidences : confidences[i] >= targets.action) THEN FALSE
    ELSE IF summary_quality < targets.summary THEN FALSE
    ELSE TRUE

\* variant: the summary comparison is the wrong way round
ValidateOutputQualityFlipped(targets, topic_quality, confidences, summary_quality) ==
    IF ScoreLt(topic_quality, targets.topic) THEN FALSE
    ELSE IF ~(\A i \in DOMAIN confidences : confidences[i] >= targets.action) THEN FALSE
    ELSE IF summary_quality > targets.summary THEN FALSE
    ELSE TRUE

ValidateOutputQuality(targets, topic_quality, confidences, summary_quality) ==
    IF ScoreLt(topic_quality, targets.topic) THEN FALSE
    ELSE IF ~(\A i \in DOMAIN confidences : confidences[i] >= targets.action) THEN FALSE
    ELSE IF summary_quality < targets.summary THEN FALSE
    ELSE TRUE

\* what the performance score of a topic result can be
TopicQualities == {Mean(l) : l \in ClusterLists} \cup {Num(70)}

ConfidenceLists == UNION {[1..n -> Scores] : n \in 0..MaxItems}

\* a caller (setup_ai_engine) invokes the quality gate
ValidateOutputQualityCall ==
    \E topic_quality \in TopicQualities, confidences \in ConfidenceLists,
       summary_quality \in Scores :
        /\ op' = "validate_output_quality"
        /\ ret' = [status |-> "ok",
                   returns |-> ValidateOutputQuality(EngineTargets(engineConfig, topicSection),
                                                     topic_quality, confidences, summary_quality),
                   topic_quality |-> topic_quality,
                   confidences |-> confidences,
                   summary_quality |-> summary_quality]
        /\ UNCHANGED <<engineConfig, topicSection, td, sg, tasks, now, pre, chunking, pool, request, update>>

(***************************************************************************)
(* AIEngine._validate_output_quality on stage outputs of any shape.  The   *)
(* score of an output is [kind, value]:                                    *)
(*   "score":   the key is there and holds a number, NaN included (value   *)
(*              is the number as a fraction; n = 0 is NaN)                 *)
(*   "missing": the key is not there: .get(..., 0) yields 0                *)
(*   "none":    the key holds None, or another value that '<' and '>='     *)
(*              cannot compare with a number: the comparison raises        *)
(*              TypeError, the except clause logs it and returns False     *)
(***************************************************************************)
NaN == Mean(<< >>)

\* topics.get('metadata', {}).get('performance_score', 0) and the like
ScoreOrDefault(score) == IF score.kind = "missing" THEN Num(0) ELSE score.value

ValidateStageOutputs(targets, topic, items, summary) ==
    IF topic.kind = "none" THEN FALSE
    ELSE IF ScoreLt(ScoreOrDefault(topic), targets.topic) THEN FALSE
    \* all(...) stops at the first item that fails; an item that cannot be
    \* compared raises when all(...) reaches it
    ELSE IF \E i \in DOMAIN items :
                \/ items[i].kind = "none"
                \/ ~ScoreGe(ScoreOrDefault(items[i]), targets.action) THEN FALSE
    ELSE IF summary.kind = "none" THEN FALSE
    ELSE IF ScoreLt(ScoreOrDefault(summary), targets.summary) THEN FALSE
    ELSE TRUE

\* the scores a stage output can carry: a good one, NaN, none at all, None
OutputScores ==
    {[kind |-> "score", value |-> Num(100)], [kind |-> "score", value |-> NaN],
     [kind |-> "missing", value |-> Num(0)], [kind |-> "none", value |-> Num(0)]}

OutputItemLists == UNION {[1..n -> OutputScores] : n \in 0..MaxItems}

\* a caller invokes the quality gate on outputs of any shape
ValidateStageOutputsCall ==
    \E topic \in OutputScores, items \in OutputItemLists, summary \in OutputScores :
        /\ op' = "validate_stage_outputs"
        /\ ret' = [status |-> "ok",
                   returns |-> ValidateStageOutputs(EngineTargets(engineConfig, topicSection),
                                                    topic, items, summary),
                   topic |-> topic, items |-> items, summary |-> summary]
        /\ UNCHANGED <<engineConfig, topicSection, td, sg, tasks, now, pre, chunking, pool, request, update>>

(***************************************************************************)
(* AIEngine.process_transcription(transcription, background_tasks).        *)
(***************************************************************************)
\* raise HTTPException(status_code=422, ...) when the gate fails
QualityBelowThreshold == 422

\* the handler's "except Exception" clause: whatever was raised inside the
\* try block, HTTPException included, leaves as HTTPException(500)
HandleException(raised) == 500

\* variant: the minutes are returned whatever the gate said
RespondIgnoringVerdict(verdict, minutes, metrics_raise) ==
    IF metrics_raise
    THEN [status |-> HandleException(500), scheduled |-> FALSE]
    ELSE [status |-> 200, scheduled |-> TRUE, minutes |-> minutes]

\* the end of the try block: the gate's verdict decides between raising and
\* returning the assembled minutes.  A background task added to a request
\* that ends in an exception is dropped with it.
Respond(verdict, minutes, metrics_raise) ==
    IF ~verdict
    THEN [status |-> HandleException(QualityBelowThreshold), scheduled |-> FALSE]
    ELSE IF metrics_raise
    THEN [status |-> HandleException(500), scheduled |-> FALSE]
    ELSE [status |-> 200, scheduled |-> TRUE, minutes |-> minutes]

ProcessTranscription(text, override, clusters, subtopics, score, metadata_complete, quality, ext) ==
    IF text = << >>
    THEN [td |-> td, sg |-> sg, failed |-> "preprocess", gate |-> "not_run",
          response |-> [status |-> HandleException(500), scheduled |-> FALSE]]
    ELSE
    LET processed_text == preprocess_text(text)
        topics == DetectTopics(td, topicSection, processed_text,
                               topicSection.confidence_threshold, clusters, subtopics,
                               IF ext = "topic_preprocess" THEN "preprocess"
                               ELSE IF ext = "topic_nlp" THEN "nlp" ELSE "ok")
    IN  IF topics.status # "ok"
        THEN [td |-> topics.td, sg |-> sg, failed |-> "topics", gate |-> "not_run",
              response |-> [status |-> HandleException(500), scheduled |-> FALSE]]
        ELSE IF ext = "action"
        THEN [td |-> topics.td, sg |-> sg, failed |-> "action_items", gate |-> "not_run",
              response |-> [status |-> HandleException(500), scheduled |-> FALSE]]
        ELSE
        LET action_items == detect_action_items(engineConfig, processed_text, override,
                                                score, metadata_complete)
            summary == GenerateSummary(sg, processed_text, quality,
                                       IF ext = "summary_preprocess" THEN "preprocess"
                                       ELSE IF ext = "summary" THEN "summary" ELSE "ok")
        IN  IF summary.status # "ok"
            THEN [td |-> topics.td, sg |-> summary.sg, failed |-> "summary", gate |-> "not_run",
                  response |-> [status |-> HandleException(500), scheduled |-> FALSE]]
            ELSE
            LET verdict == ValidateOutputQuality(EngineTargets(engineConfig, topicSection),
                                                 topics.result.performance_score,
                                                 action_items, summary.quality_score)
                minutes == [topics |-> topics.result.topics,
                            action_items |-> action_items,
                            summary |-> summary.quality_score]
            IN  [td |-> topics.td, sg |-> summary.sg, failed |-> "none",
                 gate |-> IF verdict THEN "pass" ELSE "fail",
                 response |-> Respond(verdict, minutes, ext = "metrics")]

\* the external call of a request that raises, if any
ExternalFailures ==
    {"ok", "topic_preprocess", "topic_nlp", "action", "summary_preprocess", "summary", "metrics"}

\* processing_options: no override of the action-item threshold, or one
ThresholdOverrides == {NoValue, 50}

\* what the classifier and the metadata extraction make of a text
ActionCandidates ==
    {[score |-> 70, metadata_complete |-> FALSE],
     [score |-> 100, metadata_complete |-> TRUE]}

ProcessTranscriptionCall ==
    /\ tasks < MaxTasks
    /\ \E text \in TextInputs :
       \E ext \in IF text = << >> THEN {"ok"} ELSE ExternalFailures :
       \E clusters \in IF preprocess_text(text) = << >> \/ ext \in {"topic_preprocess", "topic_nlp"}
                       THEN {<< >>} ELSE ClusterLists :
       \E subtopics \in SubtopicLists(clusters) :
       \E override \in IF preprocess_text(text) # << >> /\ ext \in {"ok", "metrics"}
                       THEN ThresholdOverrides ELSE {NoValue} :
       \E candidate \in IF preprocess_text(text) # << >> /\ ext \in {"ok", "metrics"}
                        THEN ActionCandidates ELSE {[score |-> 100, metadata_complete |-> TRUE]} :
       \E quality \in IF preprocess_text(text) # << >> /\ ext \in {"ok", "metrics"}
                      THEN Scores ELSE {100} :
           \E r \in {ProcessTranscription(text, override, clusters, subtopics, candidate.score,
                                         candidate.metadata_complete, quality, ext)} :
               /\ td' = r.td
               /\ sg' = r.sg
               /\ tasks' = IF r.response.scheduled THEN tasks + 1 ELSE tasks
               /\ op' = "process_transcription"
               /\ ret' = [failed |-> r.failed, gate |-> r.gate, response |-> r.response]
               /\ UNCHANGED <<engineConfig, topicSection, now, pre, chunking, pool, request, update>>

(***************************************************************************)
(* AIEngine._update_models_if_needed, run as a background task.  The first *)
(* stage with an update_model method is the topic detector, and the call   *)
(* passes the keyword validate_performance, which TopicDetector.update_model*)
(* does not accept: the call raises TypeError before the method runs, the  *)
(* except clause logs it, and the loop is over.                            *)
(***************************************************************************)
UpdateModelsIfNeeded ==
    /\ tasks > 0
    /\ tasks' = tasks - 1
    /\ op' = "update_models_if_needed"
    /\ ret' = [status |-> "ok"]
    /\ UNCHANGED <<engineConfig, topicSection, td, sg, now, pre, chunking, pool, request, update>>

(***************************************************************************)
(* A preprocessor on its own: calls of process and update_config, and the  *)
(* passing of time.                                                        *)
(***************************************************************************)
\* the clock readings of a cache read that follows a cache test made at t:
\* no later, or, when the test found the entry, half a TTL later
ReadTimes(p, text, use_cache, ext, t) ==
    IF /\ use_cache /\ ext = "ok" /\ t < MaxTicks * TickSeconds
       /\ TTLContains(p.cache, CacheKeyOf(text), t)
    THEN {t, t + TickSeconds}
    ELSE {t}

ProcessCall ==
    /\ pre.calls < MaxCalls
    /\ \E text \in PatternTexts :
       \E use_cache \in IF text = << >> THEN {TRUE} ELSE BOOLEAN :
       \E ext \in IF text = << >> THEN {"ok"} ELSE {"ok", "raise"} :
       \E t_read \in ReadTimes(pre, text, use_cache, ext, now) :
           \E r \in {Process(pre, text, use_cache, ext, now, t_read)} :
               /\ pre' = r.pre
               /\ now' = t_read
               /\ op' = "process"
               /\ ret' = IF r.status = "ok"
                         THEN [status |-> "ok", text |-> text, use_cache |-> use_cache,
                               hit |-> r.hit, value |-> r.value, expired |-> r.expired]
                         ELSE [status |-> r.status, text |-> text, use_cache |-> use_cache]
               /\ UNCHANGED <<engineConfig, topicSection, td, sg, tasks, chunking, pool, request, update>>

UpdateConfigCall ==
    /\ pre.calls < MaxCalls
    /\ \E has_preprocessing \in BOOLEAN :
           \E r \in {UpdateConfig(pre, has_preprocessing)} :
               /\ pre' = r.pre
               /\ op' = "update_config"
               /\ ret' = [status |-> "ok", returns |-> r.returns]
               /\ UNCHANGED <<engineConfig, topicSection, td, sg, tasks, now, chunking, pool, request, update>>

\* time passes
Tick ==
    /\ now < MaxTicks * TickSeconds
    /\ now' = now + TickSeconds
    /\ UNCHANGED <<engineConfig, topicSection, td, sg, tasks, pre, chunking, pool, request, update,
                 op, ret>>

(***************************************************************************)
(* The action item recognizer on its own.                                  *)
(***************************************************************************)
\* a caller invokes validate_action_item
ValidateActionItemCall ==
    \E item \in ActionItems, threshold \in ItemThresholds :
        \E r \in {ValidateActionItem(engineConfig, item, threshold, now)} :
            /\ op' = "validate_action_item"
            /\ ret' = IF r.status = "ok"
                      THEN [status |-> "ok", item |-> item, threshold |-> threshold,
                            at |-> now, result |-> r.result]
                      ELSE [status |-> r.status, item |-> item, threshold |-> threshold,
                            at |-> now]
            /\ UNCHANGED <<engineConfig, topicSection, td, sg, tasks, now, pre, chunking, pool, request, update>>

\* a caller invokes detect_action_items on one text.  ext: "ok", or "raise"
\* when the preprocessor, the tokenizer or the model raises
DetectActionItemsCall ==
    \E text \in ItemTexts \cup {<< >>} :
    \E ext \in IF text = << >> THEN {"ok"} ELSE {"ok", "raise"} :
    \E override \in IF text = << >> \/ ext # "ok" THEN {NoValue} ELSE ThresholdOverrides \cup {0} :
    \E candidate \in IF text = << >> \/ ext # "ok"
                     THEN {[score |-> 100, metadata_complete |-> TRUE]}
                     ELSE [score : Scores, metadata_complete : BOOLEAN] :
        /\ op' = "detect_action_items"
        /\ ret' = IF ext = "raise"
                  THEN [status |-> "error", text |-> text]
                  ELSE [status |-> "ok", text |-> text,
                        threshold |-> IF override = NoValue
                                      THEN engineConfig.action_item_recognition.confidence_threshold
                                      ELSE override,
                        score |-> candidate.score,
                        metadata_complete |-> candidate.metadata_complete,
                        words |-> Len(Split(text)),
                        items |-> detect_action_items(engineConfig, text, override,
                                                      candidate.score,
                                                      candidate.metadata_complete)]
        /\ UNCHANGED <<engineConfig, topicSection, td, sg, tasks, now, pre, chunking, pool, request, update>>

(***************************************************************************)
(* A chunk_text call, one loop iteration at a time.                        *)
(***************************************************************************)
ChunkLoop ==
    /\ chunking.pc = "loop"
    /\ chunking.start_idx < Len(chunking.text)
    /\ chunking.iterations < MaxIterations
    /\ chunking' = ChunkIteration(chunking)
    /\ op' = "chunk_text"
    /\ ret' = [status |-> IF chunking'.pc = "raised" THEN "IndexError" ELSE "running"]
    /\ UNCHANGED <<engineConfig, topicSection, td, sg, tasks, now, pre, pool, request, update>>

\* return chunks
ChunkReturn ==
    /\ chunking.pc = "loop"
    /\ ~(chunking.start_idx < Len(chunking.text))
    /\ chunking' = [chunking EXCEPT !.pc = "done"]
    /\ op' = "chunk_text"
    /\ ret' = [status |-> "ok", chunks |-> chunking.chunks]
    /\ UNCHANGED <<engineConfig, topicSection, td, sg, tasks, now, pre, pool, request, update>>

(***************************************************************************)
(* A detect_topics call and an update_model call on the same detector,     *)
(* made from two threads.  Neither method takes a lock, so the statements  *)
(* of the two calls interleave; each action below is one statement, or a   *)
(* run of statements that touch nothing the other call reads or writes.    *)
(* The request remembers in handles, beside what it read, the              *)
(* configurations self._config held when it read from it.                  *)
(***************************************************************************)
\* the text of the request
RequestText == <<"A">>

\* what the clustering helper returns for it: one cluster
RequestClusters == {<<score>> : score \in ClusterScores}

\* lines 75-80: confidence_threshold = ... or self._config['confidence_threshold']
RequestStart ==
    /\ request.pc = "idle"
    /\ request' = [pc |-> "lookup", text |-> RequestText,
                   threshold |-> TdConfig.confidence_threshold,
                   handles |-> {TdConfig}]
    /\ UNCHANGED <<engineConfig, topicSection, td, sg, tasks, now, pre, chunking, pool, update,
                   op, ret>>

\* lines 84-91: the cache lookup and, on a miss, the preprocessor
RequestLookup ==
    /\ request.pc = "lookup"
    /\ IF CacheKey(request.text, request.threshold) \in DOMAIN td.cache
       THEN /\ request' = NoRequest
            /\ op' = "detect_topics_request"
            /\ ret' = [status |-> "ok", cached |-> TRUE]
            /\ td' = td
       ELSE \E raises \in BOOLEAN :
            \E pp \in {PreprocessorProcess(td.patterns, request.text, raises)} :
               /\ td' = [td EXCEPT !.patterns = pp.patterns]
               /\ IF pp.status = "ok"
                  THEN /\ request' = [pc |-> "extract", text |-> request.text,
                                      threshold |-> request.threshold,
                                      handles |-> request.handles,
                                      processed_text |-> pp.processed_text]
                       /\ UNCHANGED <<op, ret>>
                  ELSE /\ request' = NoRequest
                       /\ op' = "detect_topics_request"
                       /\ ret' = [status |-> pp.status, cached |-> FALSE]
    /\ UNCHANGED <<engineConfig, topicSection, sg, tasks, now, pre, chunking, pool, update>>

\* lines 94-102: extract_topics with clustering_config built from
\* self._config['model_name'], the model and tokenizer it loads and uses
RequestExtract ==
    /\ request.pc = "extract"
    /\ \E ext \in {"ok", "nlp"} :
       \E clusters \in IF ext = "ok" THEN RequestClusters ELSE {<< >>} :
           IF ExtractTopicsRejects(request.processed_text, request.threshold) \/ ext = "nlp"
           THEN /\ request' = NoRequest
                /\ op' = "detect_topics_request"
                /\ ret' = [status |-> IF ext = "nlp" THEN "error" ELSE "ValueError",
                           cached |-> FALSE]
           ELSE /\ request' = [pc |-> "result", text |-> request.text,
                               threshold |-> request.threshold,
                               handles |-> request.handles \cup {TdConfig},
                               used |-> TdConfig.model_name,
                               topics |-> extract_topics(clusters, request.threshold)]
                /\ UNCHANGED <<op, ret>>
    /\ UNCHANGED <<engineConfig, topicSection, td, sg, tasks, now, pre, chunking, pool, update>>

\* lines 105-112: the result, with 'model_name': self._config['model_name']
RequestResult ==
    /\ request.pc = "result"
    /\ request' = [pc |-> "finish", text |-> request.text,
                   threshold |-> request.threshold,
                   handles |-> request.handles \cup {TdConfig},
                   used |-> request.used,
                   reported |-> TdConfig.model_name,
                   topics |-> request.topics]
    /\ UNCHANGED <<engineConfig, topicSection, td, sg, tasks, now, pre, chunking, pool, update,
                   op, ret>>

\* lines 114-118: the cache write against self._config['performance_target']
RequestFinish ==
    /\ request.pc = "finish"
    /\ LET result == [topics |-> request.topics,
                      subtopics |-> [i \in DOMAIN request.topics |-> << >>],
                      confidence_threshold |-> request.threshold,
                      model_name |-> request.reported,
                      performance_score |-> Mean(request.topics),
                      stale |-> FALSE]
       IN  /\ td' = IF CacheEligible(result, TdConfig)
                    THEN [td EXCEPT !.cache = Put(td.cache,
                                                  CacheKey(request.text, request.threshold),
                                                  result)]
                    ELSE td
           /\ ret' = [status |-> "ok", cached |-> FALSE,
                      threshold |-> request.threshold,
                      used |-> request.used,
                      reported |-> request.reported,
                      target |-> TdConfig.performance_target,
                      handles |-> request.handles \cup {TdConfig}]
    /\ request' = NoRequest
    /\ op' = "detect_topics_request"
    /\ UNCHANGED <<engineConfig, topicSection, sg, tasks, now, pre, chunking, pool, update>>

\* lines 176-189: the checks and the backups
UpdateStart ==
    /\ update.pc = "idle"
    /\ \E new_config \in TopicNewConfigs :
       \E force_update \in IF TopicConfigValid(new_config) THEN BOOLEAN ELSE {FALSE} :
       \E fail \in IF TopicConfigValid(new_config)
                   THEN {"none", "model", "tokenizer", "device"} ELSE {"none"} :
           IF ~TopicConfigValid(new_config)
           THEN /\ op' = "update_model_beside_request"
                /\ ret' = [status |-> "ok", returns |-> FALSE, path |-> "invalid"]
                /\ update' = update
           ELSE IF ~force_update /\ new_config.model_name = TdConfig.model_name
           THEN /\ op' = "update_model_beside_request"
                /\ ret' = [status |-> "ok", returns |-> TRUE, path |-> "up_to_date"]
                /\ update' = update
           ELSE /\ update' = [pc |-> "load_model", new_config |-> new_config, fail |-> fail,
                              old_config |-> TdConfig, old_model |-> td.model,
                              old_tokenizer |-> td.tokenizer]
                /\ UNCHANGED <<op, ret>>
    /\ UNCHANGED <<engineConfig, topicSection, td, sg, tasks, now, pre, chunking, pool, request>>

\* line 193: self._model = AutoModel.from_pretrained(...)
UpdateLoadModel ==
    /\ update.pc = "load_model"
    /\ IF update.fail = "model"
       THEN /\ update' = [update EXCEPT !.pc = "rollback"]
            /\ td' = td
       ELSE /\ update' = [update EXCEPT !.pc = "load_tokenizer"]
            /\ td' = [td EXCEPT !.model = update.new_config.model_name]
    /\ UNCHANGED <<engineConfig, topicSection, sg, tasks, now, pre, chunking, pool, request,
                   op, ret>>

\* line 194: self._tokenizer = AutoTokenizer.from_pretrained(...)
UpdateLoadTokenizer ==
    /\ update.pc = "load_tokenizer"
    /\ IF update.fail = "tokenizer"
       THEN /\ update' = [update EXCEPT !.pc = "rollback"]
            /\ td' = td
       ELSE /\ update' = [update EXCEPT !.pc = "config"]
            /\ td' = [td EXCEPT !.tokenizer = update.new_config.model_name]
    /\ UNCHANGED <<engineConfig, topicSection, sg, tasks, now, pre, chunking, pool, request,
                   op, ret>>

\* line 197: self._config.update(new_config), in place
UpdateConfigWrite ==
    /\ update.pc = "config"
    /\ update' = [update EXCEPT !.pc = "device"]
    /\ IF td.shared
       THEN /\ topicSection' = TopicConfigUpdate(topicSection, update.new_config)
            /\ td' = td
       ELSE /\ td' = [td EXCEPT !.own = TopicConfigUpdate(td.own, update.new_config)]
            /\ topicSection' = topicSection
    /\ UNCHANGED <<engineConfig, sg, tasks, now, pre, chunking, pool, request, op, ret>>

\* lines 200-201: self._model.to(self._device), self._model.eval()
UpdateToDevice ==
    /\ update.pc = "device"
    /\ update' = [update EXCEPT !.pc = IF update.fail = "device" THEN "rollback" ELSE "clear"]
    /\ UNCHANGED <<engineConfig, topicSection, td, sg, tasks, now, pre, chunking, pool, request,
                   op, ret>>

\* lines 204-207: self._cache.clear(), return True
UpdateCommit ==
    /\ update.pc = "clear"
    /\ td' = [td EXCEPT !.cache = ClearCache(MarkStale(td.cache))]
    /\ update' = NoUpdate
    /\ op' = "update_model_beside_request"
    /\ ret' = [status |-> "ok", returns |-> TRUE, path |-> "commit"]
    /\ UNCHANGED <<engineConfig, topicSection, sg, tasks, now, pre, chunking, pool, request>>

\* lines 209-215: the except branch
UpdateRollback ==
    /\ update.pc = "rollback"
    /\ td' = TopicRollback(td, update.old_config, update.old_model, update.old_tokenizer)
    /\ update' = NoUpdate
    /\ op' = "update_model_beside_request"
    /\ ret' = [status |-> "ok", returns |-> FALSE, path |-> "rollback"]
    /\ UNCHANGED <<engineConfig, topicSection, sg, tasks, now, pre, chunking, pool, request>>

(***************************************************************************)
(* The parallel branch of process, one worker result at a time.            *)
(***************************************************************************)
\* a worker finishes a chunk: its result is stored at the chunk's position
WorkerFinish ==
    /\ pool.pc = "map"
    /\ \E i \in DOMAIN pool.chunks :
           /\ i \notin {pool.order[k] : k \in DOMAIN pool.order}
           /\ pool' = [pool EXCEPT !.results[i] = process_chunk(pool.chunks[i]),
                                   !.order = Append(@, i)]
    /\ op' = "process_parallel"
    /\ ret' = [status |-> "running"]
    /\ UNCHANGED <<engineConfig, topicSection, td, sg, tasks, now, pre, chunking, request, update>>

\* a worker raises: map re-raises its exception in the caller
WorkerRaise ==
    /\ pool.pc = "map"
    /\ Len(pool.order) < Len(pool.chunks)
    /\ pool' = [pool EXCEPT !.pc = "raised"]
    /\ op' = "process_parallel"
    /\ ret' = [status |-> "error"]
    /\ UNCHANGED <<engineConfig, topicSection, td, sg, tasks, now, pre, chunking, request, update>>

\* every chunk is processed: map returns and the results are joined
PoolReturn ==
    /\ pool.pc = "map"
    /\ Len(pool.order) = Len(pool.chunks)
    /\ pool' = [pool EXCEPT !.pc = "done", !.processed_text = JoinChunks(MapResults(pool))]
    /\ op' = "process_parallel"
    /\ ret' = [status |-> "ok", processed_text |-> pool'.processed_text]
    /\ UNCHANGED <<engineConfig, topicSection, td, sg, tasks, now, pre, chunking, request, update>>

(***************************************************************************)
(* Specifications.                                                         *)
(*   Spec:       the service: requests and their background tasks          *)
(*   SpecGate:   the quality gate of an engine built on a valid            *)
(*               configuration, called on arbitrary stage outputs          *)
(*   SpecOutputs: the same gate, called on outputs with and without scores *)
(*   SpecTopic:  the topic detector driven through its own interface       *)
(*   SpecUpdate: model updates of the two stages that support them         *)
(*   SpecPreprocessor: a preprocessor, its pattern cache and the clock     *)
(*   SpecAction: the action item recognizer and the clock                  *)
(*   SpecChunk:  chunk_text on a range of texts and chunk sizes            *)
(*   SpecPool:   the parallel branch of the preprocessor                   *)
(*   SpecSnapshot: a detect_topics call beside an update_model call        *)
(***************************************************************************)
Next ==
    \/ ProcessTranscriptionCall
    \/ UpdateModelsIfNeeded

Spec == Init /\ [][Next]_vars

\* create_app(config): an engine built on a configuration that
\* validate_config accepts
InitGate ==
    /\ engineConfig \in {[DefaultConfig EXCEPT !.summary_generation.performance_target = target]
                             : target \in {85, 95}}
    /\ topicSection \in {[DefaultTopicConfig EXCEPT !.performance_target = target]
                             : target \in {90, 95}}
    /\ td = [shared |-> TRUE, own |-> DefaultTopicConfig,
             model |-> DefaultTopicConfig.model_name,
             tokenizer |-> DefaultTopicConfig.model_name,
             cache |-> EmptyCache, patterns |-> EmptyCache]
    /\ sg = [shared |-> TRUE, own |-> DefaultConfig,
             model |-> DefaultSummaryConfig.model_name,
             tokenizer |-> DefaultSummaryConfig.model_name,
             cache |-> EmptyCache, patterns |-> EmptyCache]
    /\ tasks = 0
    /\ now = 0
    /\ pre = NewPreprocessor
    /\ chunking = NoChunking
    /\ pool = NoPool
    /\ request = NoRequest
    /\ update = NoUpdate
    /\ op = "init"
    /\ ret = [status |-> "ok"]

NextGate == ValidateOutputQualityCall

SpecGate == InitGate /\ [][NextGate]_vars

NextOutputs == ValidateStageOutputsCall

SpecOutputs == InitGate /\ [][NextOutputs]_vars

NextTopic ==
    \/ DetectTopicsCall
    \/ TopicUpdateCall

SpecTopic == Init /\ [][NextTopic]_vars

NextUpdate ==
    \/ TopicUpdateCall
    \/ SummaryUpdateCall

SpecUpdate == Init /\ [][NextUpdate]_vars

NextPreprocessor ==
    \/ ProcessCall
    \/ UpdateConfigCall
    \/ Tick

SpecPreprocessor == Init /\ [][NextPreprocessor]_vars

NextAction ==
    \/ ValidateActionItemCall
    \/ DetectActionItemsCall
    \/ Tick

SpecAction == Init /\ [][NextAction]_vars

\* a caller invokes chunk_text
InitChunk ==
    /\ engineConfig = DefaultConfig
    /\ topicSection = DefaultTopicConfig
    /\ td = [shared |-> TRUE, own |-> DefaultTopicConfig,
             model |-> DefaultTopicConfig.model_name,
             tokenizer |-> DefaultTopicConfig.model_name,
             cache |-> EmptyCache, patterns |-> EmptyCache]
    /\ sg = [shared |-> TRUE, own |-> DefaultConfig,
             model |-> DefaultSummaryConfig.model_name,
             tokenizer |-> DefaultSummaryConfig.model_name,
             cache |-> EmptyCache, patterns |-> EmptyCache]
    /\ tasks = 0
    /\ now = 0
    /\ pre = NewPreprocessor
    /\ chunking \in ChunkCalls
    /\ pool = NoPool
    /\ request = NoRequest
    /\ update = NoUpdate
    /\ op = "init"
    /\ ret = [status |-> "ok"]

NextChunk ==
    \/ ChunkLoop
    \/ ChunkReturn

SpecChunk == InitChunk /\ [][NextChunk]_vars

\* a caller invokes process on a text longer than max_chunk_size
InitPool ==
    /\ engineConfig = DefaultConfig
    /\ topicSection = DefaultTopicConfig
    /\ td = [shared |-> TRUE, own |-> DefaultTopicConfig,
             model |-> DefaultTopicConfig.model_name,
             tokenizer |-> DefaultTopicConfig.model_name,
             cache |-> EmptyCache, patterns |-> EmptyCache]
    /\ sg = [shared |-> TRUE, own |-> DefaultConfig,
             model |-> DefaultSummaryConfig.model_name,
             tokenizer |-> DefaultSummaryConfig.model_name,
             cache |-> EmptyCache, patterns |-> EmptyCache]
    /\ tasks = 0
    /\ now = 0
    /\ pre = NewPreprocessor
    /\ chunking = NoChunking
    /\ pool \in PoolCalls
    /\ request = NoRequest
    /\ update = NoUpdate
    /\ op = "init"
    /\ ret = [status |-> "ok"]

NextPool ==
    \/ WorkerFinish
    \/ WorkerRaise
    \/ PoolReturn

SpecPool == InitPool /\ [][NextPool]_vars

NextSnapshot ==
    \/ RequestStart
    \/ RequestLookup
    \/ RequestExtract
    \/ RequestResult
    \/ RequestFinish
    \/ UpdateStart
    \/ UpdateLoadModel
    \/ UpdateLoadTokenizer
    \/ UpdateConfigWrite
    \/ UpdateToDevice
    \/ UpdateCommit
    \/ UpdateRollback

SpecSnapshot == Init /\ [][NextSnapshot]_vars

(***************************************************************************)
(* Properties.                                                             *)
(***************************************************************************)
\* C1: process_transcription returns minutes only when preprocessing and
\* the three stages completed and the quality check returned true; every
\* other request ends in an error that carries no minutes.
C1_MinutesOnlyAfterStagesAndGate ==
    op = "process_transcription" =>
        /\ ("minutes" \in DOMAIN ret.response) =>
               (ret.failed = "none" /\ ret.gate = "pass" /\ ret.response.status = 200)
        /\ ~(ret.failed = "none" /\ ret.gate = "pass") =>
               (ret.response.status >= 400 /\ "minutes" \notin DOMAIN ret.response)

\* a request whose stages completed and passed the gate got its minutes
C1_Witness ==
    /\ op = "process_transcription"
    /\ ret.failed = "none" /\ ret.gate = "pass"
    /\ "minutes" \in DOMAIN ret.response
    /\ ret.response.minutes.topics # << >>

\* C2: when the three stages complete and the quality gate returns false,
\* the request ends with the 'unprocessable' outcome (422), not with the
\* server-fault outcome (500).
C2_QualityFailureIsUnprocessable ==
    (op = "process_transcription" /\ ret.failed = "none" /\ ret.gate = "fail") =>
        (ret.response.status = QualityBelowThreshold /\ ret.response.status # 500)

\* C3: the quality gate returns false exactly when the topic performance
\* score is below the topic target, or some action item's confidence is
\* below the action-item threshold, or the summary quality score is below
\* the summary target; an empty action-item list never fails it.
C3_GateVerdict ==
    op = "validate_output_quality" =>
        LET targets == EngineTargets(engineConfig, topicSection)
            topic_below == ret.topic_quality.n > 0
                           /\ ret.topic_quality.sum < targets.topic * ret.topic_quality.n
            item_below == \E i \in 1..Len(ret.confidences) : ret.confidences[i] < targets.action
            summary_below == ret.summary_quality < targets.summary
        IN  (ret.returns = FALSE) <=> (topic_below \/ item_below \/ summary_below)

\* the gate passed outputs that have no action items
C3_Witness ==
    /\ op = "validate_output_quality"
    /\ ret.confidences = << >>
    /\ ret.returns = TRUE

\* the targets obtained from a set of targets by raising some of them
RaisedTargets(targets) ==
    {raised \in [topic : {targets.topic, 100},
                 action : {targets.action, 90, 100},
                 summary : {targets.summary, 95, 100}] :
        /\ raised.topic >= targets.topic
        /\ raised.action >= targets.action
        /\ raised.summary >= targets.summary}

\* C4: quality gate monotonicity: outputs that the gate fails under the
\* configured targets also fail under any targets obtained by raising one
\* or more of them.
C4_GateMonotone ==
    (op = "validate_output_quality" /\ ret.returns = FALSE) =>
        \A raised \in RaisedTargets(EngineTargets(engineConfig, topicSection)) :
            ValidateOutputQuality(raised, ret.topic_quality, ret.confidences,
                                  ret.summary_quality) = FALSE

\* the gate failed outputs for their summary alone, under targets that can be raised
C4_Witness ==
    /\ op = "validate_output_quality"
    /\ ret.returns = FALSE
    /\ ret.summary_quality = 70
    /\ ret.confidences = << >>
    /\ ret.topic_quality = Num(100)

\* C5: model update safety: whenever TopicDetector.update_model returns
\* False or SummaryGenerator.update_model returns status 'reverted', the
\* stage's configuration, model and tokenizer after the call equal those
\* before it.
C5_RollbackRestores ==
    [][ /\ (op' = "topic_update_model" /\ ret'.returns = FALSE) =>
               TdView(td', topicSection') = TdView(td, topicSection)
        /\ (op' = "summary_update_model" /\ ret'.status = "reverted") =>
               SgView(sg', engineConfig') = SgView(sg, engineConfig) ]_vars

\* the detector rolled an update back onto its backup configuration
C5_Witness ==
    /\ op = "topic_update_model"
    /\ ret.path = "rollback"
    /\ ret.returns = FALSE
    /\ ~td.shared

\* C6: a model update is never left half-applied: when update_model ends
\* with an error or a failure status, the stage has exactly the
\* configuration and model it had before the call.
C6_NeverHalfApplied ==
    [][ /\ (op' = "topic_update_model" /\ ret'.returns = FALSE) =>
               TdView(td', topicSection') = TdView(td, topicSection)
        /\ (op' = "summary_update_model" /\ ret'.status # "updated") =>
               SgView(sg', engineConfig') = SgView(sg, engineConfig) ]_vars

\* C7 as stated: every stage's update_model rejects a new configuration
\* that lacks performance_target and leaves the stage unchanged.
C7_MissingTargetRejectedByEveryStage ==
    [][ /\ (op' = "topic_update_model" /\ ret'.lacks_target) =>
               /\ ret'.returns = FALSE
               /\ TdView(td', topicSection') = TdView(td, topicSection)
        /\ (op' = "summary_update_model" /\ ret'.lacks_target) =>
               /\ ret'.status = "ValueError"
               /\ SgView(sg', engineConfig') = SgView(sg, engineConfig) ]_vars

\* C7 amended: SummaryGenerator.update_model rejects a new configuration
\* that lacks performance_target with ValueError and leaves the generator
\* and the configuration untouched; TopicDetector.update_model rejects
\* (returns False, nothing touched) a new configuration that lacks one of
\* the keys it requires, model_name and confidence_threshold.
C7_MissingRequiredKeyRejected ==
    [][ /\ (op' = "summary_update_model" /\ ret'.lacks_target) =>
               /\ ret'.status = "ValueError"
               /\ sg' = sg /\ engineConfig' = engineConfig
        /\ (op' = "topic_update_model" /\ ret'.path = "invalid") =>
               /\ ret'.returns = FALSE
               /\ td' = td /\ topicSection' = topicSection ]_vars

\* the generator refused a configuration without performance_target
C7_Witness ==
    /\ op = "summary_update_model"
    /\ ret.lacks_target
    /\ ret.status = "ValueError"

\* C8: after an update_model call that commits, the stage's result cache
\* is empty, and no cache ever holds a result computed before the last
\* committed update.
C8_NoStaleCache ==
    /\ (op = "topic_update_model" /\ ret.path = "commit") => td.cache = EmptyCache
    /\ \A k \in DOMAIN td.cache :
           /\ ~td.cache[k].stale
           /\ td.cache[k].model_name = TdConfig.model_name
    /\ sg.cache = EmptyCache

\* an update committed on a detector whose cache held results
C8_Witness ==
    /\ op = "topic_update_model"
    /\ ret.path = "commit"
    /\ ret.had_entries
    /\ td.cache = EmptyCache

\* C9: every entry of the detector's result cache holds a result whose
\* performance score is at or above the stage's performance_target, and a
\* computed result that is not is returned without being inserted.
C9_OnlyQualityResultsCached ==
    /\ \A k \in DOMAIN td.cache :
           ScoreGe(td.cache[k].performance_score, TdConfig.performance_target)
    /\ (/\ op = "detect_topics" /\ ret.status = "ok" /\ ~ret.cached
        /\ ~ScoreGe(ret.performance_score, TdConfig.performance_target)) =>
           ret.text \notin DOMAIN td.cache

\* a result below the target was returned and not cached
C9_Witness ==
    /\ op = "detect_topics" /\ ret.status = "ok" /\ ~ret.cached
    /\ ret.topics # << >>
    /\ ScoreLt(ret.performance_score, TdConfig.performance_target)
    /\ ret.text \notin DOMAIN td.cache

\* C10: every topic of a result returned by
\* detect_topics(text, confidence_threshold=t) has a relevance in [0,1]
\* that is at least t.
C10_ReturnedTopicsMeetThreshold ==
    (/\ op = "detect_topics" /\ ret.status = "ok"
     /\ ret.confidence_threshold # NoValue) =>
        \A i \in 1..Len(ret.topics) :
            /\ ret.topics[i] \in 0..100
            /\ ret.topics[i] >= ret.confidence_threshold

\* a process call that looked its text up in the pattern cache and returned
CachedProcessStep ==
    /\ op' = "process"
    /\ pre'.calls = pre.calls + 1
    /\ ret'.status = "ok"
    /\ ret'.use_cache

\* C11: cache idempotence of the pattern cache: a lookup of key k made
\* after put(k, v) and before the 1-hour TTL has elapsed returns v (at once
\* after the put, too), and a lookup of k made after the TTL has elapsed,
\* with no reinsertion, returns absent.
C11_LookupFollowsTtl ==
    [][ CachedProcessStep =>
          LET k == CacheKeyOf(ret'.text)
          IN  /\ \A i \in TTLIndex(pre.cache, k) :
                     LET put_at == pre.history[k].at
                         v == pre.cache[i].value
                     IN  /\ now - put_at < Ttl => (ret'.hit /\ ret'.value = v)
                         /\ now - put_at >= Ttl =>
                                (~ret'.hit /\ TTLGet(pre.cache, k, now) = Absent)
              /\ ~ret'.hit => TTLGet(pre'.cache, k, now') = ret'.value ]_vars

\* a lookup found only an entry that had outlived its TTL, and the text was
\* processed again
C11_Witness ==
    /\ op = "process"
    /\ ret.status = "ok"
    /\ ret.expired
    /\ ~ret.hit
    /\ now >= Ttl

\* C12 as stated: once process(text) returned a result with caching
\* enabled, a later process call with the same text within the TTL is served
\* from the cache, whatever other process requests were made in between.
C12_HitWhateverIntervenes ==
    [][ (/\ CachedProcessStep
         /\ CacheKeyOf(ret'.text) \in DOMAIN pre.history
         /\ now - pre.history[CacheKeyOf(ret'.text)].at < Ttl) => ret'.hit ]_vars

\* C12 amended: once process(text) stored a result with caching enabled, a
\* later process call with the same text within the TTL is served from the
\* cache, provided update_config did not clear the cache in between and
\* fewer distinct other texts than the cache's capacity (1000) went through
\* the cache since the text was last stored or served.
C12_HitUnlessEvicted ==
    [][ (/\ CachedProcessStep
         /\ CacheKeyOf(ret'.text) \in DOMAIN pre.history
         /\ now - pre.history[CacheKeyOf(ret'.text)].at < Ttl
         /\ Cardinality(pre.history[CacheKeyOf(ret'.text)].others) < CacheCapacity)
            => ret'.hit ]_vars

\* a text was served from the cache although another text was stored after it
C12_Witness ==
    /\ op = "process"
    /\ ret.status = "ok"
    /\ ret.hit
    /\ Len(pre.cache) = 2
    /\ pre.cache[2].key = CacheKeyOf(ret.text)
    /\ pre.cache[2].expires < pre.cache[1].expires

\* ceil(a / b)
CeilDiv(a, b) == (a + b - 1) \div b

\* the overlap width of a call
OverlapOf(c) == IF c.preserve_overlap THEN OverlapWidth ELSE 0

\* C13: chunk termination: for every text T and chunk size S >= 1, with
\* overlap enabled or disabled, chunk_text ends after at most
\* ceil(len(T) / max(1, S - overlap_width)) loop iterations, and the chunk
\* start offset strictly advances on every iteration.
C13_ChunkingTerminates ==
    [][ chunking'.iterations = chunking.iterations + 1 =>
          /\ chunking'.iterations <=
                 CeilDiv(Len(chunking.text), Max(1, chunking.chunk_size - OverlapOf(chunking)))
          /\ chunking'.pc = "loop" => chunking'.start_idx > chunking.start_idx ]_vars

RECURSIVE Rebuild(_, _)
\* the chunk texts from the i-th on, in offset order, each without the
\* characters it shares with the chunk before it
Rebuild(c, i) ==
    IF i > Len(c.chunks) THEN << >>
    ELSE LET chunk == c.chunks[i]
             shared == IF i = 1 THEN 0
                       ELSE Min(c.chunks[i - 1].end_idx, Len(c.text)) - chunk.start_idx
         IN  SubSeq(chunk.text, shared + 1, Len(chunk.text)) \o Rebuild(c, i + 1)

\* C14: chunk coverage: the texts of the chunks chunk_text returns,
\* concatenated in offset order, reproduce T exactly when preserve_overlap
\* is false, and reproduce T once the overlap of each chunk with the chunk
\* before it, which is the declared 100 characters and no more, is counted
\* once, when preserve_overlap is true.
C14_ChunksCoverText ==
    chunking.pc = "done" =>
        /\ Rebuild(chunking, 1) = chunking.text
        /\ \A i \in 2..Len(chunking.chunks) :
               LET prev == chunking.chunks[i - 1]
                   chunk == chunking.chunks[i]
                   shared == Min(prev.end_idx, Len(chunking.text)) - chunk.start_idx
               IN  /\ chunk.start_idx = prev.end_idx - OverlapOf(chunking)
                   /\ shared >= 0 /\ shared <= OverlapOf(chunking)
                   /\ SubSeq(chunk.text, 1, shared)
                          = SubSeq(prev.text, Len(prev.text) - shared + 1, Len(prev.text))

\* a text was returned in three or more overlapping chunks, the first of
\* which ends at a sentence end inside the text
C14_Witness ==
    /\ chunking.pc = "done"
    /\ chunking.preserve_overlap
    /\ Len(chunking.chunks) >= 3
    /\ chunking.chunks[1].overlap_next
    /\ chunking.chunks[1].end_idx < Len(chunking.text)

\* the four checks of an item against a threshold at clock time t
ConfidenceMeets(item, threshold) ==
    ConfidenceOf(item) >= (IF threshold = NoValue
                           THEN engineConfig.action_item_recognition.confidence_threshold
                           ELSE threshold)

MetadataPresent(item) == item.assignee /\ item.priority /\ item.deadline.kind # "absent"

DeadlineValid(item, t) == item.deadline.kind \in {"naive", "aware"} /\ ~(item.deadline.at < t)

HasThreeWords(item) == Len(Split(item.text)) >= 3

\* C15: validate_action_item(item, threshold) returns is_valid = true
\* exactly when all four checks pass: the confidence is at least the
\* threshold, assignee, deadline and priority are present, the deadline is
\* a valid timestamp not before the current time, and the text has at least
\* three words.
C15_ValidExactlyWhenFourChecksPass ==
    op = "validate_action_item" =>
        LET all_pass == /\ ConfidenceMeets(ret.item, ret.threshold)
                        /\ MetadataPresent(ret.item)
                        /\ DeadlineValid(ret.item, ret.at)
                        /\ HasThreeWords(ret.item)
        IN  /\ all_pass => (ret.status = "ok" /\ ret.result.is_valid)
            /\ (~all_pass /\ ret.status = "ok") => ~ret.result.is_valid

\* C16 as stated: validate_action_item depends only on the item and the
\* threshold: two calls with identical item and threshold, made at any two
\* points of an execution, return identical (is_valid, feedback).
C16_ValidationDependsOnItemAndThreshold ==
    [][ (/\ op = "validate_action_item" /\ op' = "validate_action_item"
         /\ ret'.item = ret.item /\ ret'.threshold = ret.threshold)
            => (/\ ret'.status = ret.status
                /\ ret.status = "ok" => ret'.result = ret.result) ]_vars

\* C16 amended: validate_action_item depends only on the item, the
\* threshold, the configured default threshold and on whether the item's
\* deadline is before the current time: two calls with identical item and
\* threshold, under the same configuration, made at two points that are
\* on the same side of the item's deadline, return identical
\* (is_valid, feedback).
C16_ValidationDependsOnDeadlineSide ==
    [][ (/\ op = "validate_action_item" /\ op' = "validate_action_item"
         /\ ret'.item = ret.item /\ ret'.threshold = ret.threshold
         /\ (ret'.item.deadline.at < ret'.at) = (ret.item.deadline.at < ret.at))
            => (/\ ret'.status = ret.status
                /\ ret.status = "ok" => ret'.result = ret.result) ]_vars

\* an item whose deadline has not passed was validated after the clock had
\* advanced, and was found valid
C16_Witness ==
    /\ op = "validate_action_item"
    /\ ret.status = "ok"
    /\ ret.result.is_valid
    /\ ret.at > 0
    /\ ret.item.deadline.kind = "naive"

\* C17: for a sentence that the classifier scores at or above the
\* confidence threshold, that has at least three words and whose metadata
\* has an assignee, a priority and a future deadline, detect_action_items
\* returns exactly one action item, with confidence at or above the
\* threshold.
C17_QualifyingSentenceIsDetected ==
    (/\ op = "detect_action_items" /\ ret.status = "ok" /\ ret.text # << >>
     /\ ret.score >= ret.threshold /\ ret.words >= 3 /\ ret.metadata_complete)
        => (Len(ret.items) = 1 /\ ret.items[1] >= ret.threshold)

\* C18: calling detect_topics, detect_action_items or generate_summary with
\* the empty string ends in ValueError; no stage returns a result for it.
C18_EmptyInputIsRejected ==
    (/\ op \in {"detect_topics", "detect_action_items", "generate_summary"}
     /\ ret.text = << >>)
        => ret.status = "ValueError"

RequestView ==
    [targets |-> EngineTargets(engineConfig, topicSection),
     confidence_threshold |-> topicSection.confidence_threshold,
     topic_stage |-> TdView(td, topicSection),
     summary_stage |-> SgView(sg, engineConfig)]

\* C20: failures of a model update are contained: whenever a stage's
\* update_model (or the background update check) fails, the requests
\* processed afterwards see the same stage models and configuration as
\* before the update attempt.
C20_UpdateFailureContained ==
    [][ (\/ op' = "topic_update_model" /\ ret'.returns = FALSE
         \/ op' = "summary_update_model" /\ ret'.status # "updated"
         \/ op' = "update_models_if_needed")
            => RequestView' = RequestView ]_vars

\* C22: with performance validation enabled, SummaryGenerator.update_model
\* commits (status 'updated', new configuration active, cache cleared)
\* exactly when the measured degradation is at most 10%, and rolls back
\* (status 'reverted', previous configuration active) exactly when it is
\* above 10%; with validation skipped it always commits.
C22_CommitExactlyWithinTenPercent ==
    [][ (op' = "summary_update_model" /\ ret'.status # "ValueError") =>
          LET committed == /\ ret'.status = "updated"
                           /\ SgConfig' = SummaryConfigUpdate(SgConfig, ret'.new_config)
                           /\ sg'.cache = EmptyCache
              rolled_back == /\ ret'.status = "reverted"
                             /\ SgConfig' = SgConfig
          IN  /\ (ret'.validate_performance /\ ret'.outcome # NoValue) =>
                     /\ ret'.outcome <= 10 => committed
                     /\ ret'.outcome > 10 => rolled_back
                     /\ ret'.status = "updated" => ret'.outcome <= 10
                     /\ ret'.status = "reverted" => ret'.outcome > 10
              /\ ~ret'.validate_performance => committed ]_vars

\* an update that measured a degradation of exactly 10% was committed with
\* a new summary section
C22_Witness ==
    /\ op = "summary_update_model"
    /\ ret.status = "updated"
    /\ ret.validate_performance
    /\ ret.outcome = 10
    /\ ret.new_config.summary_generation.present
    /\ SgConfig.summary_generation = NewSummaryConfig

\* C23: for every text T strictly shorter than the target chunk size S,
\* chunk_text returns exactly one chunk, whose text is T, with overlap
\* preservation enabled or disabled.
C23_ShortTextIsOneChunk ==
    Len(chunking.text) < chunking.chunk_size =>
        /\ chunking.pc # "raised"
        /\ Len(chunking.chunks) <= 1
        /\ chunking.pc = "done" =>
               (Len(chunking.chunks) = 1 /\ chunking.chunks[1].text = chunking.text)

\* C24: every chunk chunk_text returns has a length (end_idx - start_idx,
\* and the length of its text) of at most the effective chunk size, which
\* is itself at most the chunk_size passed in: the device-memory bound only
\* lowers it.
C24_ChunksWithinChunkSize ==
    /\ chunking.chunk_size <= chunking.requested
    /\ \A i \in 1..Len(chunking.chunks) :
           /\ chunking.chunks[i].end_idx - chunking.chunks[i].start_idx <= chunking.chunk_size
           /\ Len(chunking.chunks[i].text) <= chunking.chunk_size

\* C25: detect_topics called with a confidence threshold outside [0,1]
\* ends in ValueError in every state of the detector, also after earlier
\* successful calls on the same text, and is rejected before any processing
\* stage runs or any cache is written.  (Calls in which an external call
\* raises an error of its own are left aside.)
C25_ThresholdOutOfRangeRejectedFirst ==
    [][ (/\ op' = "detect_topics"
         /\ ret'.confidence_threshold > 100
         /\ ret'.status # "error")
            => (ret'.status = "ValueError" /\ td' = td) ]_vars

\* C27: a SummaryGenerator.update_model call that ends with status
\* 'reverted', or with an error, leaves the configuration object shared
\* with the orchestrator and the other stages, which the quality gate and
\* _get_model_versions read, with the contents it had before the call.
C27_RevertLeavesSharedConfig ==
    [][ (op' = "summary_update_model" /\ ret'.status \in {"reverted", "error"}) =>
            /\ engineConfig' = engineConfig
            /\ topicSection' = topicSection ]_vars

\* C28: for every input on which validate_action_item returns, is_valid is
\* true if and only if the feedback list it returns is empty: every failing
\* check appends at least one reason, and no reason is appended when all
\* checks pass.
C28_ValidIffNoFeedback ==
    (op = "validate_action_item" /\ ret.status = "ok") =>
        /\ ret.result.is_valid <=> (ret.result.feedback = << >>)
        /\ ~ret.result.confidence_check => Len(ret.result.feedback) >= 1
        /\ ~ret.result.metadata_check => Len(ret.result.feedback) >= 1
        /\ ~ret.result.format_check => Len(ret.result.feedback) >= 1

\* an item failed for its deadline alone, which is not an ISO timestamp,
\* and the feedback says so
C28_Witness ==
    /\ op = "validate_action_item" /\ ret.status = "ok"
    /\ ret.item.deadline.kind = "malformed"
    /\ ret.result.confidence_check /\ ret.result.format_check
    /\ ~ret.result.is_valid
    /\ Len(ret.result.feedback) = 1

\* a score that is not there, or that cannot be ordered against a target
LacksComparableScore(score) ==
    \/ score.kind \in {"missing", "none"}
    \/ score.kind = "score" /\ score.value = NaN

\* C29: the quality gate fails closed: if any stage output lacks its score
\* (topics without a performance score, an action item without confidence,
\* a summary without a quality score) or carries a score that cannot be
\* compared, _validate_output_quality returns false; it never returns true
\* and never raises for such input.
C29_GateFailsClosed ==
    (/\ op = "validate_stage_outputs"
     /\ \/ LacksComparableScore(ret.topic)
        \/ \E i \in 1..Len(ret.items) : LacksComparableScore(ret.items[i])
        \/ LacksComparableScore(ret.summary))
        => (ret.status = "ok" /\ ret.returns = FALSE)

\* C30: every call of TranscriptionPreprocessor.process with caching
\* enabled either returns and increments exactly one of the counters
\* cache_hits (a hit) and texts_processed (a miss, whose result is
\* inserted) by one, or raises and leaves both counters and the pattern
\* cache unchanged; hence cache_hits + texts_processed is the number of
\* calls that returned.
C30_CountersFollowOutcome ==
    [][ (op' = "process" /\ pre'.calls = pre.calls + 1 /\ ret'.use_cache) =>
          /\ (ret'.status = "ok" /\ ret'.hit) =>
                 /\ pre'.cache_hits = pre.cache_hits + 1
                 /\ pre'.texts_processed = pre.texts_processed
          /\ (ret'.status = "ok" /\ ~ret'.hit) =>
                 /\ pre'.texts_processed = pre.texts_processed + 1
                 /\ pre'.cache_hits = pre.cache_hits
                 /\ TTLGet(pre'.cache, CacheKeyOf(ret'.text), now') = ret'.value
          /\ ret'.status # "ok" =>
                 /\ pre'.cache_hits = pre.cache_hits
                 /\ pre'.texts_processed = pre.texts_processed
                 /\ pre'.cache = pre.cache
          /\ pre'.cache_hits + pre'.texts_processed = pre'.returned ]_vars

RECURSIVE ProcessedInOffsetOrder(_, _)
\* the processed chunks of a text from the i-th on, one after the other
ProcessedInOffsetOrder(chunks, i) ==
    IF i > Len(chunks) THEN << >>
    ELSE process_chunk(chunks[i]) \o ProcessedInOffsetOrder(chunks, i + 1)

\* C26: in the parallel branch of TranscriptionPreprocessor.process,
\* whatever order the worker processes finish their chunks in, the
\* processed text is the concatenation of the processed chunks in original
\* offset order: chunk i of the input precedes chunk i+1 in the output.
C26_ParallelKeepsOffsetOrder ==
    pool.pc = "done" =>
        /\ JoinChunks(pool.chunks) = pool.text
        /\ pool.processed_text = ProcessedInOffsetOrder(pool.chunks, 1)

\* the workers finished a later chunk before an earlier one whose result
\* is different, and the call returned
C26_Witness ==
    /\ pool.pc = "done"
    /\ \E k \in 1..(Len(pool.order) - 1) :
           /\ pool.order[k] > pool.order[k + 1]
           /\ pool.results[pool.order[k]] # pool.results[pool.order[k + 1]]
    /\ JoinChunks(MapResultsAsFinished(pool)) # pool.processed_text

\* C21: snapshot at start: when a stage's update_model runs concurrently
\* with a request using that stage, the request observes one consistent
\* handle for its whole duration: what it reads of the configuration and
\* the model it uses and reports all come from one of the handles the
\* stage had, from before the update or from after it; no request observes
\* a new model together with an old configuration, and none switches model
\* mid-request.
C21_RequestSeesOneHandle ==
    (op = "detect_topics_request" /\ ret.status = "ok" /\ ~ret.cached) =>
        \E handle \in ret.handles :
            /\ ret.threshold = handle.confidence_threshold
            /\ ret.used = handle.model_name
            /\ ret.reported = handle.model_name
            /\ ret.target = handle.performance_target

====
